---------------------------- MODULE Spec2Model ----------------------------
(* A model of the MT5 trading bot ("Desktop/trading bot"): the risk        *)
(* manager, the trailing stop manager, the kill switch and the bar loop of *)
(* TradingBot, with the MetaTrader terminal as the environment.            *)
(*                                                                         *)
(* Numbers.  Prices, stops, ATR values and equities are integers (price    *)
(* points, account currency units).  The decimal configuration values are  *)
(* kept as fixed-point numbers: multipliers and the breakeven ratio in     *)
(* tenths (1.5 is 15), the drawdown limit in hundredths (0.05 is 5).  ATR  *)
(* values are even numbers of points, so that ATR * 1.5 is a whole number  *)
(* of points and no rounding is introduced by the model.                   *)
(* Optional[float] values and NaN are records [some, val]; None and NaN    *)
(* have some = FALSE.                                                      *)
EXTENDS Integers, Sequences, FiniteSets, TLC

VARIABLES
    kill_switch,      \* KillSwitch: magic_number, _starting_equity, _is_triggered, _is_initialized
    tsm_positions,    \* TrailingStopManager._positions: ticket -> TrailingState
    mt5_positions,    \* the terminal's positions: ticket -> [open, is_long, sl, magic]
    bot,              \* TradingBot: pc (place in run/on_bar), _is_running, _last_bar_time
    frame,            \* the locals of the running on_bar call
    last,             \* the last call made: its name, arguments, result and log event
    seen_rr           \* tickets that have had an update with profit_rr >= breakeven_rr

vars == <<kill_switch, tsm_positions, mt5_positions, bot, frame, last, seen_rr>>

-----------------------------------------------------------------------------
(* Bounds of the model *)

MaxPrice == 7          \* prices given to update are 1..MaxPrice
MaxAtrSteps == 1       \* ATR values given to update are 0, 2, .., 2*MaxAtrSteps
MaxTickets == 1        \* the terminal confirms MaxTickets orders of the strategy
MaxLen == 4            \* the series given to the indicators have 0..MaxLen bars
MaxPeriod == 2         \* the indicators are given the periods 1..MaxPeriod

(* Program constants *)

Tenths == 10                    \* denominator of the fixed-point multipliers
Hundredths == 100               \* denominator of the fixed-point drawdown limit
MAGIC_NUMBER == 234000
ATR_SL_MULTIPLIER == 15         \* 1.5
ATR_TP_MULTIPLIER == 20         \* 2.0
TRAILING_ATR_MULTIPLIER == 10   \* 1.0
BREAKEVEN_RR_RATIO == 10        \* 1.0
EQUITY_DRAWDOWN_LIMIT == 5      \* 0.05
DEFAULT_MAGIC == 0              \* KillSwitch.__init__ default magic_number

RSI_OVERSOLD == 30
RSI_OVERBOUGHT == 70
RSI_PERIOD == 14

Prices == 1..MaxPrice
\* the closes of the bars the feed delivers, one stop distance (2 * 1.5) apart
Closes == {3, 6}
Atrs == {2 * k : k \in 0..MaxAtrSteps}

\* the tickets the terminal gives to the orders of the strategy, in this
\* order; it rejects the orders that follow
Tickets == 1..MaxTickets

\* the tickets the trailing stop manager is called with when it is taken on
\* its own
TsmTickets == {1, 2}

None == [some |-> FALSE, val |-> 0]
Some(v) == [some |-> TRUE, val |-> v]
NaN == None

\* the last value of calculate_atr on the bars the feed delivers
BarAtrs == {NaN, Some(0), Some(2)}

-----------------------------------------------------------------------------
(* strategy/risk_manager.py *)

\* calculate_levels returning None, in the shape of the RiskLevels it
\* returns otherwise
NoLevels ==
    [some |-> FALSE,
     val  |-> [stop_loss |-> 0, take_profit |-> 0, atr_value |-> 0,
               risk_distance |-> 0]]

\* calculate_levels with the signs of the LONG levels for SHORT as well
calculate_levels_unmirrored(signal_type, entry_price, current_atr) ==
    IF signal_type = "NONE" THEN NoLevels
    ELSE IF ~current_atr.some \/ current_atr.val <= 0 THEN NoLevels
    ELSE LET sl_distance == (current_atr.val * ATR_SL_MULTIPLIER) \div Tenths
             tp_distance == (current_atr.val * ATR_TP_MULTIPLIER) \div Tenths
         IN  Some([stop_loss     |-> entry_price - sl_distance,
                   take_profit   |-> entry_price + tp_distance,
                   atr_value     |-> current_atr.val,
                   risk_distance |-> sl_distance])

\* calculate_levels that refuses a negative ATR only
calculate_levels_zero_atr(signal_type, entry_price, current_atr) ==
    IF signal_type = "NONE" THEN NoLevels
    ELSE IF ~current_atr.some \/ current_atr.val < 0 THEN NoLevels
    ELSE LET sl_distance == (current_atr.val * ATR_SL_MULTIPLIER) \div Tenths
             tp_distance == (current_atr.val * ATR_TP_MULTIPLIER) \div Tenths
         IN  Some([stop_loss     |-> IF signal_type = "LONG"
                                       THEN entry_price - sl_distance
                                       ELSE entry_price + sl_distance,
                   take_profit   |-> IF signal_type = "LONG"
                                       THEN entry_price + tp_distance
                                       ELSE entry_price - tp_distance,
                   atr_value     |-> current_atr.val,
                   risk_distance |-> sl_distance])

\* calculate_levels without the test of the signal type: NONE takes the
\* branch of SHORT
calculate_levels_any_signal(signal_type, entry_price, current_atr) ==
    IF ~current_atr.some \/ current_atr.val <= 0 THEN NoLevels
    ELSE LET sl_distance == (current_atr.val * ATR_SL_MULTIPLIER) \div Tenths
             tp_distance == (current_atr.val * ATR_TP_MULTIPLIER) \div Tenths
         IN  Some([stop_loss     |-> IF signal_type = "LONG"
                                       THEN entry_price - sl_distance
                                       ELSE entry_price + sl_distance,
                   take_profit   |-> IF signal_type = "LONG"
                                       THEN entry_price + tp_distance
                                       ELSE entry_price - tp_distance,
                   atr_value     |-> current_atr.val,
                   risk_distance |-> sl_distance])

\* RiskManager.calculate_levels, given the last ATR value of the series
calculate_levels(signal_type, entry_price, current_atr) ==
    IF signal_type = "NONE" THEN NoLevels
    ELSE IF ~current_atr.some \/ current_atr.val <= 0 THEN NoLevels
    ELSE LET sl_distance == (current_atr.val * ATR_SL_MULTIPLIER) \div Tenths
             tp_distance == (current_atr.val * ATR_TP_MULTIPLIER) \div Tenths
         IN  Some([stop_loss     |-> IF signal_type = "LONG"
                                       THEN entry_price - sl_distance
                                       ELSE entry_price + sl_distance,
                   take_profit   |-> IF signal_type = "LONG"
                                       THEN entry_price + tp_distance
                                       ELSE entry_price - tp_distance,
                   atr_value     |-> current_atr.val,
                   risk_distance |-> sl_distance])

\* TrailingState as register_position builds it
TrailingState(ticket, entry_price, stop_loss, risk_distance) ==
    [ticket        |-> ticket,
     entry_price   |-> entry_price,
     initial_sl    |-> stop_loss,
     current_sl    |-> stop_loss,
     risk_distance |-> risk_distance,
     is_breakeven  |-> FALSE,
     is_trailing   |-> FALSE]

\* TrailingStopManager.register_position: the map after the call
register_position(positions, ticket, entry_price, stop_loss, risk_distance) ==
    [t \in DOMAIN positions \cup {ticket} |->
        IF t = ticket
        THEN TrailingState(ticket, entry_price, stop_loss, risk_distance)
        ELSE positions[t]]

\* TrailingStopManager.unregister_position: the map after the call
unregister_position(positions, ticket) ==
    [t \in DOMAIN positions \ {ticket} |-> positions[t]]

\* profit_distance of update
profit_distance(state, current_price, is_long) ==
    IF is_long THEN current_price - state.entry_price
               ELSE state.entry_price - current_price

\* profit_rr >= self.breakeven_rr, with
\* profit_rr = profit_distance / risk_distance if risk_distance > 0 else 0
rr_reached(state, current_price, is_long) ==
    IF state.risk_distance > 0
    THEN profit_distance(state, current_price, is_long) * Tenths
            >= BREAKEVEN_RR_RATIO * state.risk_distance
    ELSE 0 >= BREAKEVEN_RR_RATIO

\* the trailing branch of update with the comparison against current_sl
\* left out: the stop follows the price in both directions
trail_unguarded(state, current_price, current_atr, is_long) ==
    LET trailing_distance == (current_atr * TRAILING_ATR_MULTIPLIER) \div Tenths
        potential_sl == IF is_long THEN current_price - trailing_distance
                                   ELSE current_price + trailing_distance
    IN  [state  |-> [state EXCEPT !.current_sl = potential_sl],
         new_sl |-> Some(potential_sl),
         event  |-> "trailing"]

\* the trailing branch of update with comparisons that also take a
\* potential stop equal to the current stop
trail_non_strict(state, current_price, current_atr, is_long) ==
    LET trailing_distance == (current_atr * TRAILING_ATR_MULTIPLIER) \div Tenths
        potential_sl == IF is_long THEN current_price - trailing_distance
                                   ELSE current_price + trailing_distance
        better == IF is_long THEN potential_sl >= state.current_sl
                             ELSE potential_sl <= state.current_sl
    IN  IF better
        THEN [state  |-> [state EXCEPT !.current_sl = potential_sl],
              new_sl |-> Some(potential_sl),
              event  |-> "trailing"]
        ELSE [state |-> state, new_sl |-> None, event |-> "none"]

\* the trailing branch of update (elif state.is_trailing)
trail(state, current_price, current_atr, is_long) ==
    LET trailing_distance == (current_atr * TRAILING_ATR_MULTIPLIER) \div Tenths
        potential_sl == IF is_long THEN current_price - trailing_distance
                                   ELSE current_price + trailing_distance
        better == IF is_long THEN potential_sl > state.current_sl
                             ELSE potential_sl < state.current_sl
    IN  IF better
        THEN [state  |-> [state EXCEPT !.current_sl = potential_sl],
              new_sl |-> Some(potential_sl),
              event  |-> "trailing"]
        ELSE [state |-> state, new_sl |-> None, event |-> "none"]

\* update with the breakeven test not guarded by is_breakeven: the stop
\* returns to the entry price whenever the ratio is reached
update_state_refire(state, current_price, current_atr, is_long) ==
    IF rr_reached(state, current_price, is_long)
    THEN [state  |-> [state EXCEPT !.is_breakeven = TRUE,
                                   !.is_trailing = TRUE,
                                   !.current_sl = state.entry_price],
          new_sl |-> Some(state.entry_price),
          event  |-> "breakeven"]
    ELSE IF state.is_trailing
    THEN trail(state, current_price, current_atr, is_long)
    ELSE [state |-> state, new_sl |-> None, event |-> "none"]

\* update with the trailing branch under `if` instead of `elif`: the
\* update that moves the stop to breakeven trails it as well
update_state_trail_on_breakeven(state, current_price, current_atr, is_long) ==
    IF ~state.is_breakeven /\ rr_reached(state, current_price, is_long)
    THEN LET at_entry == [state EXCEPT !.is_breakeven = TRUE,
                                       !.is_trailing = TRUE,
                                       !.current_sl = state.entry_price]
             r == trail(at_entry, current_price, current_atr, is_long)
         IN  IF r.new_sl.some
             THEN [state |-> r.state, new_sl |-> r.new_sl, event |-> "breakeven"]
             ELSE [state |-> at_entry, new_sl |-> Some(state.entry_price),
                   event |-> "breakeven"]
    ELSE IF state.is_trailing
    THEN trail(state, current_price, current_atr, is_long)
    ELSE [state |-> state, new_sl |-> None, event |-> "none"]

\* update with the trailing branch under a plain `else`: a position that
\* has not reached breakeven is trailed too
update_state_trail_initial(state, current_price, current_atr, is_long) ==
    IF ~state.is_breakeven /\ rr_reached(state, current_price, is_long)
    THEN [state  |-> [state EXCEPT !.is_breakeven = TRUE,
                                   !.is_trailing = TRUE,
                                   !.current_sl = state.entry_price],
          new_sl |-> Some(state.entry_price),
          event  |-> "breakeven"]
    ELSE trail(state, current_price, current_atr, is_long)

\* update whose breakeven branch does not switch the trailing on
update_state_breakeven_only(state, current_price, current_atr, is_long) ==
    IF ~state.is_breakeven /\ rr_reached(state, current_price, is_long)
    THEN [state  |-> [state EXCEPT !.is_breakeven = TRUE,
                                   !.current_sl = state.entry_price],
          new_sl |-> Some(state.entry_price),
          event  |-> "breakeven"]
    ELSE IF state.is_trailing
    THEN trail(state, current_price, current_atr, is_long)
    ELSE [state |-> state, new_sl |-> None, event |-> "none"]

\* update whose breakeven branch sets the flags and leaves the stop where
\* it is
update_state_breakeven_keeps_stop(state, current_price, current_atr, is_long) ==
    IF ~state.is_breakeven /\ rr_reached(state, current_price, is_long)
    THEN [state  |-> [state EXCEPT !.is_breakeven = TRUE,
                                   !.is_trailing = TRUE],
          new_sl |-> None,
          event  |-> "breakeven"]
    ELSE IF state.is_trailing
    THEN trail(state, current_price, current_atr, is_long)
    ELSE [state |-> state, new_sl |-> None, event |-> "none"]

\* TrailingStopManager.update on a registered ticket: the new state of the
\* ticket, the value returned and the event logged
update_state(state, current_price, current_atr, is_long) ==
    IF ~state.is_breakeven /\ rr_reached(state, current_price, is_long)
    THEN [state  |-> [state EXCEPT !.is_breakeven = TRUE,
                                   !.is_trailing = TRUE,
                                   !.current_sl = state.entry_price],
          new_sl |-> Some(state.entry_price),
          event  |-> "breakeven"]
    ELSE IF state.is_trailing
    THEN trail(state, current_price, current_atr, is_long)
    ELSE [state |-> state, new_sl |-> None, event |-> "none"]

\* TrailingStopManager.update: the map after the call, the value returned
\* and the event logged
update(positions, ticket, current_price, current_atr, is_long) ==
    IF ticket \notin DOMAIN positions
    THEN [positions |-> positions, new_sl |-> None, event |-> "not found"]
    ELSE LET r == update_state(positions[ticket], current_price, current_atr, is_long)
         IN  [positions |-> [positions EXCEPT ![ticket] = r.state],
              new_sl    |-> r.new_sl,
              event     |-> r.event]

\* the tickets whose update reaches the breakeven ratio, kept for the log
note_rr(ticket, current_price, is_long) ==
    IF ticket \in DOMAIN tsm_positions
       /\ rr_reached(tsm_positions[ticket], current_price, is_long)
    THEN seen_rr \cup {ticket}
    ELSE seen_rr

-----------------------------------------------------------------------------
(* strategy/kill_switch.py *)

OTHER_MAGIC == MAGIC_NUMBER + 1     \* the magic number of some other strategy

\* amounts mt5.account_info().equity takes in the model
Equities == {0, 9499, 9500, 9501, 10000, 10500}

\* mt5.account_info(): None, or an account with its equity
AccountInfos == {None} \cup {Some(e) : e \in Equities}

\* KillSwitch.__init__
KillSwitch(magic_number) ==
    [magic_number     |-> magic_number,
     starting_equity  |-> None,
     is_triggered     |-> FALSE,
     is_initialized   |-> FALSE]

\* initialize() that clears the trigger flag before it reads the account
ks_initialize_clear_first(ks, account_info) ==
    IF ~account_info.some
    THEN [ks |-> [ks EXCEPT !.is_triggered = FALSE], ret |-> FALSE]
    ELSE [ks  |-> [ks EXCEPT !.starting_equity = Some(account_info.val),
                             !.is_triggered = FALSE,
                             !.is_initialized = TRUE],
          ret |-> TRUE]

\* KillSwitch.initialize
ks_initialize(ks, account_info) ==
    IF ~account_info.some
    THEN [ks |-> ks, ret |-> FALSE]
    ELSE [ks  |-> [ks EXCEPT !.starting_equity = Some(account_info.val),
                             !.is_triggered = FALSE,
                             !.is_initialized = TRUE],
          ret |-> TRUE]

\* drawdown > self.drawdown_limit, a strict comparison
drawdown_exceeded(starting_equity, equity) ==
    IF starting_equity > 0
    THEN (starting_equity - equity) * Hundredths > EQUITY_DRAWDOWN_LIMIT * starting_equity
    ELSE (starting_equity - equity) * Hundredths < EQUITY_DRAWDOWN_LIMIT * starting_equity

\* drawdown >= self.drawdown_limit, with
\* drawdown = (starting_equity - equity) / starting_equity, starting_equity # 0
drawdown_reached(starting_equity, equity) ==
    IF starting_equity > 0
    THEN (starting_equity - equity) * Hundredths >= EQUITY_DRAWDOWN_LIMIT * starting_equity
    ELSE (starting_equity - equity) * Hundredths <= EQUITY_DRAWDOWN_LIMIT * starting_equity

\* the same part of check() treating an unreadable account as "no drawdown"
ks_check_armed_failopen(ks, account_info) ==
    IF ~account_info.some
    THEN [ks |-> ks, ret |-> FALSE, raised |-> FALSE, read |-> TRUE]
    ELSE IF ks.starting_equity.val = 0
    THEN [ks |-> ks, ret |-> FALSE, raised |-> TRUE, read |-> TRUE]
    ELSE IF drawdown_reached(ks.starting_equity.val, account_info.val)
    THEN [ks |-> [ks EXCEPT !.is_triggered = TRUE],
          ret |-> TRUE, raised |-> FALSE, read |-> TRUE]
    ELSE [ks |-> ks, ret |-> FALSE, raised |-> FALSE, read |-> TRUE]

\* the part of check() after the early returns: reads the account
ks_check_armed(ks, account_info) ==
    IF ~account_info.some
    THEN [ks |-> [ks EXCEPT !.is_triggered = TRUE],
          ret |-> TRUE, raised |-> FALSE, read |-> TRUE]
    ELSE IF ks.starting_equity.val = 0
    THEN [ks |-> ks, ret |-> FALSE, raised |-> TRUE, read |-> TRUE]   \* ZeroDivisionError
    ELSE IF drawdown_reached(ks.starting_equity.val, account_info.val)
    THEN [ks |-> [ks EXCEPT !.is_triggered = TRUE],
          ret |-> TRUE, raised |-> FALSE, read |-> TRUE]
    ELSE [ks |-> ks, ret |-> FALSE, raised |-> FALSE, read |-> TRUE]

\* check() without the early return on _is_triggered: the drawdown is
\* computed again on every call
ks_check_recompute(ks, account_info) ==
    IF ~ks.is_initialized \/ ~ks.starting_equity.some
    THEN [ks |-> ks, ret |-> FALSE, raised |-> FALSE, read |-> FALSE]
    ELSE IF ~account_info.some
    THEN [ks |-> [ks EXCEPT !.is_triggered = TRUE],
          ret |-> TRUE, raised |-> FALSE, read |-> TRUE]
    ELSE IF ks.starting_equity.val = 0
    THEN [ks |-> ks, ret |-> FALSE, raised |-> TRUE, read |-> TRUE]
    ELSE LET hit == drawdown_reached(ks.starting_equity.val, account_info.val)
         IN  [ks |-> [ks EXCEPT !.is_triggered = hit],
              ret |-> hit, raised |-> FALSE, read |-> TRUE]

\* check() without the early return for a switch that is not initialized:
\* it reads the account, and the drawdown of a missing starting equity
\* raises
ks_check_no_arm_test(ks, account_info) ==
    IF ks.is_triggered
    THEN [ks |-> ks, ret |-> TRUE, raised |-> FALSE, read |-> FALSE]
    ELSE IF ~account_info.some
    THEN [ks |-> [ks EXCEPT !.is_triggered = TRUE],
          ret |-> TRUE, raised |-> FALSE, read |-> TRUE]
    ELSE IF ~ks.starting_equity.some \/ ks.starting_equity.val = 0
    THEN [ks |-> ks, ret |-> FALSE, raised |-> TRUE, read |-> TRUE]
    ELSE IF drawdown_reached(ks.starting_equity.val, account_info.val)
    THEN [ks |-> [ks EXCEPT !.is_triggered = TRUE],
          ret |-> TRUE, raised |-> FALSE, read |-> TRUE]
    ELSE [ks |-> ks, ret |-> FALSE, raised |-> FALSE, read |-> TRUE]

\* KillSwitch.check: the switch after the call, the value returned, whether
\* the call raised, and whether it read mt5.account_info()
ks_check(ks, account_info) ==
    IF ks.is_triggered
    THEN [ks |-> ks, ret |-> TRUE, raised |-> FALSE, read |-> FALSE]
    ELSE IF ~ks.is_initialized \/ ~ks.starting_equity.some
    THEN [ks |-> ks, ret |-> FALSE, raised |-> FALSE, read |-> FALSE]
    ELSE ks_check_armed(ks, account_info)

\* the open positions of the terminal
open_tickets(positions) == {t \in DOMAIN positions : positions[t].open}

\* the positions execute_kill does not skip (the magic filter of its loop)
kill_targets(ks, positions) ==
    {t \in open_tickets(positions) :
        ~(ks.magic_number > 0 /\ positions[t].magic # ks.magic_number)}

\* the terminal after the positions in closed were closed
close_positions(positions, closed) ==
    [t \in DOMAIN positions |->
        IF t \in closed THEN [positions[t] EXCEPT !.open = FALSE, !.sl = 0]
        ELSE positions[t]]

\* execute_kill counting the closing orders it sent instead of the closing
\* orders the terminal confirmed
execute_kill_count_sent(ks, positions, readable, ticks, done) ==
    IF ~ks.is_triggered \/ ~readable
    THEN [positions |-> positions, sent |-> {}, ret |-> 0]
    ELSE LET sent == {t \in open_tickets(positions) :
                         ~(ks.magic_number > 0
                           /\ positions[t].magic # ks.magic_number)} \cap ticks
         IN  [positions |-> [t \in DOMAIN positions |->
                               IF t \in sent \cap done
                               THEN [positions[t] EXCEPT !.open = FALSE, !.sl = 0]
                               ELSE positions[t]],
              sent      |-> sent,
              ret       |-> Cardinality(sent)]

\* KillSwitch.execute_kill.  readable: mt5.positions_get() did not return
\* None; ticks: the positions for which mt5.symbol_info_tick has a tick;
\* done: the positions whose closing order the terminal confirms.
\* Gives the terminal after the call, the closing orders sent and the count returned.
execute_kill(ks, positions, readable, ticks, done) ==
    IF ~ks.is_triggered \/ ~readable
    THEN [positions |-> positions, sent |-> {}, ret |-> 0]
    ELSE LET sent == kill_targets(ks, positions) \cap ticks
         IN  [positions |-> close_positions(positions, sent \cap done),
              sent      |-> sent,
              ret       |-> Cardinality(sent \cap done)]

-----------------------------------------------------------------------------
(* The state after construction (TradingBot.__init__) *)

NoData == [some |-> FALSE, close |-> 0, atr |-> NaN]
NoSignal == [signal_type |-> "NONE", entry_price |-> 0]

\* the locals of on_bar before it has assigned any
EmptyFrame ==
    [data        |-> NoData,
     positions   |-> <<>>,
     idx         |-> 0,
     new_sl      |-> None,
     signal      |-> NoSignal,
     risk_levels |-> NoLevels,
     ticket      |-> None]

\* TradingBot.__init__: _last_bar_time = None, _is_running = False
\* pc is the place of the main thread in run and on_bar; exc is the
\* exception being raised through run, if any; last_bar_time is "None",
\* or "Current" when it is the timestamp of the feed's current bar, or
\* "Stale" when the feed has moved to a later bar
NewBot == [pc |-> "start", is_running |-> FALSE, last_bar_time |-> "None",
           exc |-> "None"]

\* a position record of the terminal
Position(is_long, sl, magic) ==
    [open |-> TRUE, is_long |-> is_long, sl |-> sl, magic |-> magic]

\* the ticket the terminal gives to the next order of the strategy
next_ticket == Cardinality(DOMAIN mt5_positions \ {0}) + 1

-----------------------------------------------------------------------------
(* The trailing stop manager on its own: positions are opened and          *)
(* registered as on_bar does it, and update and unregister_position are    *)
(* called in any order with any price and ATR.                             *)

\* the entry prices of the positions: the middle of the price range, so
\* that later prices lie on both sides of the entry
EntryPrices == {(MaxPrice + 1) \div 2}

InitTsm ==
    /\ kill_switch = KillSwitch(MAGIC_NUMBER)
    /\ tsm_positions = <<>>
    /\ mt5_positions = <<>>
    /\ bot = NewBot
    /\ frame = EmptyFrame
    /\ last = [op |-> "init"]
    /\ seen_rr = {}

\* a position opened with the levels of calculate_levels and registered
\* (on_bar, steps "execute trade" and "register")
TsmRegister ==
    \E signal_type \in {"LONG", "SHORT"}, entry_price \in EntryPrices, atr \in Atrs :
        LET levels == calculate_levels(signal_type, entry_price, Some(atr))
            ticket == next_ticket
        IN  /\ levels.some
            /\ ticket \in TsmTickets
            /\ mt5_positions' =
                 [t \in DOMAIN mt5_positions \cup {ticket} |->
                    IF t = ticket
                    THEN Position(signal_type = "LONG", levels.val.stop_loss, MAGIC_NUMBER)
                    ELSE mt5_positions[t]]
            /\ tsm_positions' = register_position(tsm_positions, ticket, entry_price,
                                    levels.val.stop_loss, levels.val.risk_distance)
            /\ last' = [op |-> "register_position", ticket |-> ticket]
            /\ UNCHANGED <<kill_switch, bot, frame, seen_rr>>

\* update(ticket, current_price, current_atr, is_long), is_long being the
\* direction of the position when the terminal knows the ticket
TsmUpdate ==
    \E ticket \in TsmTickets, current_price \in Prices, current_atr \in Atrs,
       is_long \in BOOLEAN :
        /\ ticket \in DOMAIN mt5_positions => is_long = mt5_positions[ticket].is_long
        /\ LET r == update(tsm_positions, ticket, current_price, current_atr, is_long)
           IN  /\ tsm_positions' = r.positions
               /\ last' = [op |-> "update", ticket |-> ticket,
                           current_price |-> current_price,
                           current_atr |-> current_atr, is_long |-> is_long,
                           new_sl |-> r.new_sl, event |-> r.event]
        /\ seen_rr' = note_rr(ticket, current_price, is_long)
        /\ UNCHANGED <<kill_switch, mt5_positions, bot, frame>>

TsmUnregister ==
    \E ticket \in TsmTickets :
        /\ tsm_positions' = unregister_position(tsm_positions, ticket)
        /\ last' = [op |-> "unregister_position", ticket |-> ticket]
        /\ UNCHANGED <<kill_switch, mt5_positions, bot, frame, seen_rr>>

NextTsm == TsmRegister \/ TsmUpdate \/ TsmUnregister

SpecTsm == InitTsm /\ [][NextTsm]_vars

-----------------------------------------------------------------------------
(* The kill switch on its own: initialize, check and execute_kill are      *)
(* called in any order, against a terminal that holds positions of this    *)
(* strategy (tickets 1..) and possibly one of another strategy (ticket 0). *)

StartPositions(S) ==
    [t \in S |-> Position(TRUE, 0, IF t = 0 THEN OTHER_MAGIC ELSE MAGIC_NUMBER)]

InitKs ==
    /\ kill_switch \in {KillSwitch(m) : m \in {DEFAULT_MAGIC, MAGIC_NUMBER}}
    /\ tsm_positions = <<>>
    /\ mt5_positions \in {StartPositions(S) : S \in SUBSET ({0} \cup Tickets)}
    /\ bot = NewBot
    /\ frame = EmptyFrame
    /\ last = [op |-> "init"]
    /\ seen_rr = {}

KsInitialize ==
    \E account_info \in AccountInfos :
        LET r == ks_initialize(kill_switch, account_info)
        IN  /\ kill_switch' = r.ks
            /\ last' = [op |-> "initialize", account_info |-> account_info,
                        ret |-> r.ret]
            /\ UNCHANGED <<tsm_positions, mt5_positions, bot, frame, seen_rr>>

KsCheck ==
    \E account_info \in AccountInfos :
        LET r == ks_check(kill_switch, account_info)
        IN  /\ kill_switch' = r.ks
            /\ last' = [op |-> "check",
                        account_info |-> IF r.read THEN account_info ELSE None,
                        ret |-> r.ret, raised |-> r.raised, read |-> r.read]
            /\ UNCHANGED <<tsm_positions, mt5_positions, bot, frame, seen_rr>>

KsExecuteKill ==
    \E readable \in BOOLEAN, ticks, done \in SUBSET open_tickets(mt5_positions) :
        LET r == execute_kill(kill_switch, mt5_positions, readable, ticks, done)
        IN  /\ done \subseteq ticks
            /\ mt5_positions' = r.positions
            /\ last' = [op |-> "execute_kill", sent |-> r.sent, ret |-> r.ret]
            /\ UNCHANGED <<kill_switch, tsm_positions, bot, frame, seen_rr>>

NextKs == KsInitialize \/ KsCheck \/ KsExecuteKill

SpecKs == InitKs /\ [][NextKs]_vars

-----------------------------------------------------------------------------
(* strategy/indicators.py *)

\* The arrays hold rational numbers num / den with den > 0, in lowest terms:
\* the arithmetic of the indicators is carried out exactly.

RECURSIVE GCD(_, _)
GCD(a, b) == IF b = 0 THEN a ELSE GCD(b, a % b)

Abs(x) == IF x < 0 THEN -x ELSE x

Max(a, b) == IF a >= b THEN a ELSE b

\* the number n / d, d # 0
Q(n, d) ==
    LET s == IF d < 0 THEN -1 ELSE 1
        g == GCD(Abs(n), Abs(d))
    IN  [num |-> (s * n) \div g, den |-> (s * d) \div g]

QInt(n) == [num |-> n, den |-> 1]
QAdd(a, b) == Q(a.num * b.den + b.num * a.den, a.den * b.den)
QSub(a, b) == Q(a.num * b.den - b.num * a.den, a.den * b.den)
QMul(a, b) == Q(a.num * b.num, a.den * b.den)
\* a / b, b # 0
QDiv(a, b) == Q(a.num * b.den, a.den * b.num)
QLess(a, b) == a.num * b.den < b.num * a.den
QLeq(a, b) == a.num * b.den <= b.num * a.den

\* np.nan and a defined element of an indicator array
QNaN == [some |-> FALSE, val |-> QInt(0)]
QSome(q) == [some |-> TRUE, val |-> q]

\* np.full_like(data, np.nan) for an array of n elements
full_nan(n) == [i \in 1..n |-> QNaN]

\* the sum of xs[a..b]
RECURSIVE SumInts(_, _, _)
SumInts(xs, a, b) == IF a > b THEN 0 ELSE xs[a] + SumInts(xs, a + 1, b)

\* an EMA that starts at the first element instead of the mean of the
\* first period elements, and so is defined on every series
RECURSIVE ema_from_first_at(_, _, _)
ema_from_first_at(data, period, i) ==
    IF i = 1 THEN QInt(data[1])
    ELSE LET prev == ema_from_first_at(data, period, i - 1)
         IN  QAdd(QMul(QSub(QInt(data[i]), prev), Q(2, period + 1)), prev)

calculate_ema_from_first(data, period) ==
    [i \in 1..Len(data) |-> QSome(ema_from_first_at(data, period, i))]

\* ema[i - 1] of calculate_ema for i >= period: the mean of the first
\* period elements, then (data[i] - ema[i - 1]) * multiplier + ema[i - 1]
RECURSIVE ema_at(_, _, _)
ema_at(data, period, i) ==
    IF i = period THEN Q(SumInts(data, 1, period), period)
    ELSE LET prev == ema_at(data, period, i - 1)
         IN  QAdd(QMul(QSub(QInt(data[i]), prev), Q(2, period + 1)), prev)

\* an EMA whose seed is stored one element late, at index period
calculate_ema_seed_late(data, period) ==
    IF Len(data) < period + 1 THEN full_nan(Len(data))
    ELSE [i \in 1..Len(data) |->
            IF i <= period THEN QNaN ELSE QSome(ema_at(data, period, i - 1))]

\* calculate_ema; element i of the sequence is ema[i - 1] of the code
calculate_ema(data, period) ==
    IF Len(data) < period THEN full_nan(Len(data))
    ELSE [i \in 1..Len(data) |->
            IF i < period THEN QNaN ELSE QSome(ema_at(data, period, i))]

\* np.diff(data)
deltas(data) == [i \in 1..(Len(data) - 1) |-> data[i + 1] - data[i]]
\* np.where(deltas > 0, deltas, 0.0) and np.where(deltas < 0, -deltas, 0.0)
gains(data) == [i \in 1..(Len(data) - 1) |->
                  IF deltas(data)[i] > 0 THEN deltas(data)[i] ELSE 0]
losses(data) == [i \in 1..(Len(data) - 1) |->
                  IF deltas(data)[i] < 0 THEN -deltas(data)[i] ELSE 0]

\* avg_gain or avg_loss of calculate_rsi once the k first elements of xs
\* are taken in, k >= period: the mean of the first period elements, then
\* Wilder's smoothing
RECURSIVE wilder_avg(_, _, _)
wilder_avg(xs, period, k) ==
    IF k = period THEN Q(SumInts(xs, 1, period), period)
    ELSE QDiv(QAdd(QMul(wilder_avg(xs, period, k - 1), QInt(period - 1)),
                   QInt(xs[k])),
              QInt(period))

\* the relative strength as a percentage, without 100 - 100 / (1 + rs)
rsi_value_rs_percent(avg_gain, avg_loss) ==
    IF avg_loss.num = 0 THEN QInt(100)
    ELSE QMul(QInt(100), QDiv(avg_gain, avg_loss))

\* the RSI calculate_rsi stores for one pair of averages
rsi_value(avg_gain, avg_loss) ==
    IF avg_loss.num = 0 THEN QInt(100)
    ELSE LET rs == QDiv(avg_gain, avg_loss)
         IN  QSub(QInt(100), QDiv(QInt(100), QAdd(QInt(1), rs)))

\* an RSI whose values are stored one element late, from index period + 1
calculate_rsi_first_late(data, period) ==
    IF Len(data) < period + 1 THEN full_nan(Len(data))
    ELSE [i \in 1..Len(data) |->
            IF i <= period + 1 THEN QNaN
            ELSE QSome(rsi_value(wilder_avg(gains(data), period, i - 2),
                                 wilder_avg(losses(data), period, i - 2)))]

\* calculate_rsi; element i of the sequence is rsi[i - 1] of the code
calculate_rsi(data, period) ==
    IF Len(data) < period + 1 THEN full_nan(Len(data))
    ELSE [i \in 1..Len(data) |->
            IF i <= period THEN QNaN
            ELSE QSome(rsi_value(wilder_avg(gains(data), period, i - 1),
                                 wilder_avg(losses(data), period, i - 1)))]

\* the array tr of calculate_atr; element i is tr[i - 1] of the code
true_range(high, low, close) ==
    [i \in 1..Len(close) |->
        IF i = 1 THEN high[1] - low[1]
        ELSE Max(high[i] - low[i],
                 Max(Abs(high[i] - close[i - 1]), Abs(low[i] - close[i - 1])))]

\* a first ATR that averages the true ranges from the first bar on
atr_seed_from_first(tr, period) == Q(SumInts(tr, 1, period), period)

\* the first ATR: np.mean(tr[1:period + 1])
atr_seed(tr, period) == Q(SumInts(tr, 2, period + 1), period)

\* atr[i - 1] of calculate_atr for i >= period + 1
RECURSIVE atr_at(_, _, _)
atr_at(tr, period, i) ==
    IF i = period + 1 THEN atr_seed(tr, period)
    ELSE QDiv(QAdd(QMul(atr_at(tr, period, i - 1), QInt(period - 1)),
                   QInt(tr[i])),
              QInt(period))

\* calculate_atr; element i of the sequence is atr[i - 1] of the code
calculate_atr(high, low, close, period) ==
    IF Len(close) < period + 1 THEN full_nan(Len(close))
    ELSE [i \in 1..Len(close) |->
            IF i <= period THEN QNaN
            ELSE QSome(atr_at(true_range(high, low, close), period, i))]

-----------------------------------------------------------------------------
(* strategy/signals.py *)

\* RSI values the indicator takes in the model, around the two thresholds
Rsis == {28, 32, 72}
OptRsis == {NaN} \cup {Some(r) : r \in Rsis}
\* EMA values: below every close, equal to the highest close, above every close
OptEmas == {NaN} \cup {Some(e) : e \in {0, 6, 7}}

\* generate with a LONG trigger that needs the previous RSI strictly below
\* the oversold level
generate_strict_cross(enough, current_close, current_ema, current_rsi, previous_rsi) ==
    IF ~enough THEN [signal_type |-> "NONE", entry_price |-> 0]
    ELSE IF ~current_ema.some \/ ~current_rsi.some \/ ~previous_rsi.some
    THEN [signal_type |-> "NONE", entry_price |-> current_close]
    ELSE IF current_close > current_ema.val
    THEN [signal_type |-> IF previous_rsi.val < RSI_OVERSOLD
                             /\ RSI_OVERSOLD < current_rsi.val
                          THEN "LONG" ELSE "NONE",
          entry_price |-> current_close]
    ELSE IF current_close < current_ema.val
    THEN [signal_type |-> IF previous_rsi.val >= RSI_OVERBOUGHT
                             /\ RSI_OVERBOUGHT > current_rsi.val
                          THEN "SHORT" ELSE "NONE",
          entry_price |-> current_close]
    ELSE [signal_type |-> "NONE", entry_price |-> current_close]

\* generate with a SHORT branch that also takes a close equal to the EMA
generate_tie_short(enough, current_close, current_ema, current_rsi, previous_rsi) ==
    IF ~enough THEN [signal_type |-> "NONE", entry_price |-> 0]
    ELSE IF ~current_ema.some \/ ~current_rsi.some \/ ~previous_rsi.some
    THEN [signal_type |-> "NONE", entry_price |-> current_close]
    ELSE IF current_close > current_ema.val
    THEN [signal_type |-> IF previous_rsi.val <= RSI_OVERSOLD
                             /\ RSI_OVERSOLD < current_rsi.val
                          THEN "LONG" ELSE "NONE",
          entry_price |-> current_close]
    ELSE [signal_type |-> IF previous_rsi.val >= RSI_OVERBOUGHT
                             /\ RSI_OVERBOUGHT > current_rsi.val
                          THEN "SHORT" ELSE "NONE",
          entry_price |-> current_close]

\* SignalGenerator.generate, given whether the series is long enough and
\* the last EMA and the last two RSI values of the series
generate(enough, current_close, current_ema, current_rsi, previous_rsi) ==
    IF ~enough THEN [signal_type |-> "NONE", entry_price |-> 0]
    ELSE IF ~current_ema.some \/ ~current_rsi.some \/ ~previous_rsi.some
    THEN [signal_type |-> "NONE", entry_price |-> current_close]
    ELSE IF current_close > current_ema.val
    THEN [signal_type |-> IF previous_rsi.val <= RSI_OVERSOLD
                             /\ RSI_OVERSOLD < current_rsi.val
                          THEN "LONG" ELSE "NONE",
          entry_price |-> current_close]
    ELSE IF current_close < current_ema.val
    THEN [signal_type |-> IF previous_rsi.val >= RSI_OVERBOUGHT
                             /\ RSI_OVERBOUGHT > current_rsi.val
                          THEN "SHORT" ELSE "NONE",
          entry_price |-> current_close]
    ELSE [signal_type |-> "NONE", entry_price |-> current_close]

\* Signal.is_valid
is_valid(signal) == signal.signal_type # "NONE"

\* a length test that lets a series of max(ema_period, rsi_period) + 1
\* closes through
enough_bars_one_short(n, ema_period, rsi_period) ==
    ~(n < Max(ema_period, rsi_period) + 1)

\* the length test of generate, negated: the series has the closes the
\* signal rule needs
enough_bars(n, ema_period, rsi_period) ==
    ~(n < Max(ema_period, rsi_period) + 2)

\* the Signal returned for a series that is too short
ZeroSignal ==
    [signal_type |-> "NONE", entry_price |-> 0,
     ema_value |-> QInt(0), rsi_value |-> QInt(0)]

\* SignalGenerator.generate on the series of closes itself, for a generator
\* built with ema_period and rsi_period: the Signal with its reference values
generate_on_closes(close_prices, current_price, ema_period, rsi_period) ==
    IF ~enough_bars(Len(close_prices), ema_period, rsi_period) THEN ZeroSignal
    ELSE LET n == Len(close_prices)
             ema == calculate_ema(close_prices, ema_period)
             rsi == calculate_rsi(close_prices, rsi_period)
             current_close == IF current_price.some /\ current_price.val # 0
                              THEN current_price.val ELSE close_prices[n]
             current_ema == ema[n]
             current_rsi == rsi[n]
             previous_rsi == rsi[n - 1]
         IN  IF ~current_ema.some \/ ~current_rsi.some \/ ~previous_rsi.some
             THEN [signal_type |-> "NONE", entry_price |-> current_close,
                   ema_value |-> IF current_ema.some THEN current_ema.val
                                 ELSE QInt(0),
                   rsi_value |-> IF current_rsi.some THEN current_rsi.val
                                 ELSE QInt(0)]
             ELSE [signal_type |->
                      IF QLess(current_ema.val, QInt(current_close))
                      THEN IF QLeq(previous_rsi.val, QInt(RSI_OVERSOLD))
                              /\ QLess(QInt(RSI_OVERSOLD), current_rsi.val)
                           THEN "LONG" ELSE "NONE"
                      ELSE IF QLess(QInt(current_close), current_ema.val)
                      THEN IF QLeq(QInt(RSI_OVERBOUGHT), previous_rsi.val)
                              /\ QLess(current_rsi.val, QInt(RSI_OVERBOUGHT))
                           THEN "SHORT" ELSE "NONE"
                      ELSE "NONE",
                   entry_price |-> current_close,
                   ema_value |-> current_ema.val,
                   rsi_value |-> current_rsi.val]

-----------------------------------------------------------------------------
(* The risk manager on its own: calculate_levels is called with any signal *)
(* type, entry price and last ATR value, and levels it returned are        *)
(* registered with the trailing manager as on_bar registers them.  Prices  *)
(* are in units of 0.001, so that 1100 stands for 1.10000 and an ATR of 2  *)
(* for 0.0020.                                                             *)

\* entry prices given to calculate_levels
RiskEntries == Prices \cup {1100}
\* last ATR values of the series: undefined, zero and positive
RiskAtrs == {NaN} \cup {Some(2 * k) : k \in 0..(MaxAtrSteps + 2)}

InitRisk ==
    /\ kill_switch = KillSwitch(MAGIC_NUMBER)
    /\ tsm_positions = <<>>
    /\ mt5_positions = <<>>
    /\ bot = NewBot
    /\ frame = EmptyFrame
    /\ last = [op |-> "init"]
    /\ seen_rr = {}

RiskCalculateLevels ==
    \E signal_type \in {"LONG", "SHORT", "NONE"}, entry_price \in RiskEntries,
       current_atr \in RiskAtrs :
        /\ last' = [op |-> "calculate_levels", signal_type |-> signal_type,
                    entry_price |-> entry_price, current_atr |-> current_atr,
                    ret |-> calculate_levels(signal_type, entry_price, current_atr)]
        /\ UNCHANGED <<kill_switch, tsm_positions, mt5_positions, bot, frame, seen_rr>>

\* on_bar's registration of the levels just computed, under the ticket of
\* the single position the strategy holds
RiskRegister ==
    /\ last.op = "calculate_levels"
    /\ last.ret.some
    /\ tsm_positions' = register_position(tsm_positions, 1, last.entry_price,
                            last.ret.val.stop_loss, last.ret.val.risk_distance)
    /\ last' = [op |-> "register_position", ticket |-> 1]
    /\ UNCHANGED <<kill_switch, mt5_positions, bot, frame, seen_rr>>

NextRisk == RiskCalculateLevels \/ RiskRegister

SpecRisk == InitRisk /\ [][NextRisk]_vars

-----------------------------------------------------------------------------
(* The signal generator on its own: generate is called on any series.  The *)
(* series is given by what generate reads of it: whether it has the        *)
(* max(ema_period, rsi_period) + 2 closes of the length test, its last     *)
(* close, and the last EMA and the last two RSI values computed on it.  A  *)
(* series of 200 or 201 closes fails the length test with all of these     *)
(* values defined.                                                         *)

\* RSI values below, at and above the two thresholds
SigRsis == {28, 30, 32, 68, 70, 72}
SigOptRsis == {NaN} \cup {Some(r) : r \in SigRsis}

InitSig ==
    /\ kill_switch = KillSwitch(MAGIC_NUMBER)
    /\ tsm_positions = <<>>
    /\ mt5_positions = <<>>
    /\ bot = NewBot
    /\ frame = EmptyFrame
    /\ last = [op |-> "init"]
    /\ seen_rr = {}

SigGenerate ==
    \E enough \in BOOLEAN, current_close \in Closes, current_ema \in OptEmas,
       current_rsi \in SigOptRsis, previous_rsi \in SigOptRsis :
        /\ last' = [op |-> "generate", enough |-> enough,
                    current_close |-> current_close, current_ema |-> current_ema,
                    current_rsi |-> current_rsi, previous_rsi |-> previous_rsi,
                    ret |-> generate(enough, current_close, current_ema,
                                     current_rsi, previous_rsi)]
        /\ UNCHANGED <<kill_switch, tsm_positions, mt5_positions, bot, frame, seen_rr>>

NextSig == SigGenerate

SpecSig == InitSig /\ [][NextSig]_vars

-----------------------------------------------------------------------------
(* The indicators and the signal generator on series of bars: a call of   *)
(* one of the functions on a series of up to MaxLen bars, with any period, *)
(* is chosen at the start and then carried out.                            *)

\* the closes of the series
SeriesCloses == {1, 2, 3}
\* the bars of the series for calculate_atr: a plain bar, a bar without a
\* range, a bar that gaps up, and a malformed bar whose high is below its low
SeriesBars ==
    {[high |-> 3, low |-> 1, close |-> 2], [high |-> 2, low |-> 2, close |-> 2],
     [high |-> 5, low |-> 4, close |-> 5], [high |-> 1, low |-> 3, close |-> 2]}
\* the series of at most MaxLen elements of S
SeriesOf(S) == UNION {[1..n -> S] : n \in 0..MaxLen}
\* the periods of the indicators: the small ones and the configured one
IndPeriods == (1..MaxPeriod) \cup {RSI_PERIOD}
\* the current_price argument of generate: left out, 0.0, or a price above
\* every close
CurrentPrices == {None, Some(0), Some(4)}

\* the calls: the function and its arguments
EmaCalls ==
    {[op |-> "call", fn |-> "calculate_ema", data |-> data, period |-> period] :
        data \in SeriesOf(SeriesCloses), period \in IndPeriods}
RsiCalls ==
    {[op |-> "call", fn |-> "calculate_rsi", data |-> data, period |-> period] :
        data \in SeriesOf(SeriesCloses), period \in IndPeriods}
AtrCalls ==
    {[op |-> "call", fn |-> "calculate_atr",
      high  |-> [i \in 1..Len(bars) |-> bars[i].high],
      low   |-> [i \in 1..Len(bars) |-> bars[i].low],
      close |-> [i \in 1..Len(bars) |-> bars[i].close],
      period |-> period] :
        bars \in SeriesOf(SeriesBars), period \in IndPeriods}
GenerateCalls ==
    {[op |-> "call", fn |-> "generate", close_prices |-> close_prices,
      current_price |-> current_price, ema_period |-> ema_period,
      rsi_period |-> rsi_period] :
        close_prices \in SeriesOf(SeriesCloses), current_price \in CurrentPrices,
        ema_period \in 1..MaxPeriod, rsi_period \in 1..MaxPeriod}

InitInd ==
    /\ kill_switch = KillSwitch(MAGIC_NUMBER)
    /\ tsm_positions = <<>>
    /\ mt5_positions = <<>>
    /\ bot = NewBot
    /\ frame = EmptyFrame
    /\ \/ last \in EmaCalls
       \/ last \in RsiCalls
       \/ last \in AtrCalls
       \/ last \in GenerateCalls
    /\ seen_rr = {}

IndEma ==
    /\ last.op = "call" /\ last.fn = "calculate_ema"
    /\ last' = [op |-> "calculate_ema", data |-> last.data,
                period |-> last.period,
                ema |-> calculate_ema(last.data, last.period)]
    /\ UNCHANGED <<kill_switch, tsm_positions, mt5_positions, bot, frame, seen_rr>>

IndRsi ==
    /\ last.op = "call" /\ last.fn = "calculate_rsi"
    /\ last' = [op |-> "calculate_rsi", data |-> last.data,
                period |-> last.period,
                rsi |-> calculate_rsi(last.data, last.period)]
    /\ UNCHANGED <<kill_switch, tsm_positions, mt5_positions, bot, frame, seen_rr>>

IndAtr ==
    /\ last.op = "call" /\ last.fn = "calculate_atr"
    /\ last' = [op |-> "calculate_atr", high |-> last.high, low |-> last.low,
                close |-> last.close, period |-> last.period,
                atr |-> calculate_atr(last.high, last.low, last.close,
                                      last.period)]
    /\ UNCHANGED <<kill_switch, tsm_positions, mt5_positions, bot, frame, seen_rr>>

IndGenerate ==
    /\ last.op = "call" /\ last.fn = "generate"
    /\ last' = [op |-> "generate", close_prices |-> last.close_prices,
                current_price |-> last.current_price,
                ema_period |-> last.ema_period, rsi_period |-> last.rsi_period,
                signal |-> generate_on_closes(last.close_prices,
                                              last.current_price,
                                              last.ema_period, last.rsi_period)]
    /\ UNCHANGED <<kill_switch, tsm_positions, mt5_positions, bot, frame, seen_rr>>

NextInd == IndEma \/ IndRsi \/ IndAtr \/ IndGenerate

SpecInd == InitInd /\ [][NextInd]_vars

-----------------------------------------------------------------------------
(* strategy/executor.py *)

\* the elements of a set of tickets in increasing order
Sorted(S) ==
    CHOOSE sq \in [1..Cardinality(S) -> S] :
        \A i, j \in 1..Cardinality(S) : i < j => sq[i] < sq[j]

\* MT5Executor.get_open_positions; readable: mt5.positions_get did not
\* return None
get_open_positions(positions, readable) ==
    IF ~readable THEN <<>>
    ELSE Sorted({t \in open_tickets(positions) : positions[t].magic = MAGIC_NUMBER})

\* MT5Executor.modify_position(ticket, stop_loss=stop_loss); ok: the
\* terminal confirms the request.  Gives the terminal after the call, the
\* value returned and whether a request was sent.
modify_position(positions, ticket, stop_loss, ok) ==
    IF ticket \notin open_tickets(positions)
    THEN [positions |-> positions, ret |-> FALSE, sent |-> FALSE]
    ELSE IF stop_loss = positions[ticket].sl
    THEN [positions |-> positions, ret |-> TRUE, sent |-> FALSE]
    ELSE IF ok
    THEN [positions |-> [positions EXCEPT ![ticket].sl = stop_loss],
          ret |-> TRUE, sent |-> TRUE]
    ELSE [positions |-> positions, ret |-> FALSE, sent |-> TRUE]

\* MT5Executor.open_position; ok: symbol and tick are available and the
\* terminal confirms the order, which gets the ticket given
open_position(positions, is_long, stop_loss, ok, ticket) ==
    IF ~ok
    THEN [positions |-> positions, ticket |-> None]
    ELSE [positions |-> [t \in DOMAIN positions \cup {ticket} |->
                            IF t = ticket
                            THEN Position(is_long, stop_loss, MAGIC_NUMBER)
                            ELSE positions[t]],
          ticket    |-> Some(ticket)]

-----------------------------------------------------------------------------
(* main.py: TradingBot.run and TradingBot.on_bar, one action for each call *)
(* they make; the terminal's answers are chosen with \E at the call.       *)

\* equities the account holds when the session starts
StartAccountInfos == {None, Some(0), Some(10000)}

\* bars fetch_ohlc_data returns, as far as on_bar reads them: the last
\* close and the last value of calculate_atr on the series
Bars == {[some |-> TRUE, close |-> c, atr |-> a] : c \in Closes, a \in BarAtrs}

\* where on_bar goes after kill_switch.check()
after_check(r) ==
    IF r.raised THEN "shutdown" ELSE IF r.ret THEN "kill" ELSE "fetch"

\* on_bar going on to the data fetch after execute_kill
after_kill_continue == "fetch"

\* where on_bar goes after execute_kill: it returns
after_kill == "sleep"

\* on_bar going on to the positions whatever fetch_ohlc_data returned
after_fetch_unchecked(data) == "positions"

\* where on_bar goes after fetch_ohlc_data
after_fetch(data) == IF data.some THEN "positions" ELSE "sleep"

\* where on_bar goes after the loop over the positions
after_loop(positions) == IF Len(positions) > 0 THEN "sleep" ELSE "signal"

\* where on_bar goes after it has handled positions[idx]
loop_next(positions, idx) ==
    IF idx < Len(positions) THEN "update" ELSE after_loop(positions)

\* where on_bar goes after signal_generator.generate
after_signal(signal) == IF is_valid(signal) THEN "levels" ELSE "sleep"

\* on_bar opening the trade whatever calculate_levels returned
after_levels_unchecked(risk_levels) == "open"

\* where on_bar goes after risk_manager.calculate_levels
after_levels(risk_levels) == IF risk_levels.some THEN "open" ELSE "sleep"

\* on_bar registering whatever open_position returned
after_open_unchecked(ticket) == "register"

\* where on_bar goes after executor.open_position
after_open(ticket) == IF ticket.some THEN "register" ELSE "sleep"

\* the places between the try and the finally of run
InLoop == {"loop", "sleep", "check", "kill", "fetch", "positions", "update",
           "modify", "signal", "levels", "open", "register"}

Init ==
    /\ kill_switch = KillSwitch(MAGIC_NUMBER)
    /\ tsm_positions = <<>>
    /\ mt5_positions = StartPositions({0})
    /\ bot = NewBot
    /\ frame = EmptyFrame
    /\ last = [op |-> "init"]
    /\ seen_rr = {}

\* run going on to the loop whatever kill_switch.initialize() returned
after_initialize_unchecked(ret) == "loop"

\* where run goes after kill_switch.initialize(): it returns on a failure
after_initialize(ret) == IF ret THEN "loop" ELSE "done"

\* run up to the loop: kill_switch.initialize(), _is_running = True,
\* _last_bar_time = get_current_bar_time()
Start ==
    /\ bot.pc = "start"
    /\ \E account_info \in StartAccountInfos, bar_time \in {"None", "Current"} :
         LET r == ks_initialize(kill_switch, account_info)
         IN  /\ kill_switch' = r.ks
             /\ bot' = IF after_initialize(r.ret) = "loop"
                       THEN [bot EXCEPT !.pc = "loop", !.is_running = TRUE,
                                        !.last_bar_time = bar_time]
                       ELSE [bot EXCEPT !.pc = "done"]
             /\ last' = [op |-> "initialize", ret |-> r.ret]
    /\ UNCHANGED <<tsm_positions, mt5_positions, frame, seen_rr>>

\* while self._is_running: false, so the loop ends and finally runs
LoopExit ==
    /\ bot.pc = "loop"
    /\ ~bot.is_running
    /\ bot' = [bot EXCEPT !.pc = "shutdown"]
    /\ UNCHANGED <<kill_switch, tsm_positions, mt5_positions, frame, last, seen_rr>>

\* a new-bar test that compares the timestamps only, so that a timestamp
\* that could not be read counts as a new bar
new_bar_any_change(available, last_bar_time) ==
    IF available THEN last_bar_time # "Current" ELSE last_bar_time # "None"

\* the new-bar test of the loop:
\* current_bar_time and current_bar_time != self._last_bar_time
new_bar(available, last_bar_time) == available /\ last_bar_time # "Current"

\* one poll of the loop: get_current_bar_time() and the new-bar test;
\* available: the feed returned the timestamp of its current bar
Poll ==
    /\ bot.pc = "loop"
    /\ bot.is_running
    /\ \E available \in BOOLEAN :
         IF new_bar(available, bot.last_bar_time)
         THEN /\ bot' = [bot EXCEPT !.pc = "check",
                                    !.last_bar_time = IF available THEN "Current"
                                                      ELSE "None"]
              /\ frame' = EmptyFrame
              /\ last' = [op |-> "on_bar", available |-> available]
         ELSE /\ bot' = [bot EXCEPT !.pc = "sleep"]
              /\ frame' = frame
              /\ last' = [op |-> "poll", available |-> available]
    /\ UNCHANGED <<kill_switch, tsm_positions, mt5_positions, seen_rr>>

\* time.sleep(config.BAR_CHECK_INTERVAL); on_bar, if it ran, has returned
\* and its locals are gone
Sleep ==
    /\ bot.pc = "sleep"
    /\ bot' = [bot EXCEPT !.pc = "loop"]
    /\ frame' = EmptyFrame
    /\ last' = [op |-> "sleep"]
    /\ UNCHANGED <<kill_switch, tsm_positions, mt5_positions, seen_rr>>

\* on_bar step 1: kill_switch.check()
Check ==
    /\ bot.pc = "check"
    /\ \E account_info \in AccountInfos :
         LET r == ks_check(kill_switch, account_info)
         IN  /\ kill_switch' = r.ks
             /\ bot' = [bot EXCEPT !.pc = after_check(r),
                                   !.exc = IF r.raised THEN "ZeroDivisionError"
                                           ELSE bot.exc]
             /\ frame' = frame
             /\ last' = [op |-> "check", ret |-> r.ret, raised |-> r.raised,
                         read |-> r.read]
    /\ UNCHANGED <<tsm_positions, mt5_positions, seen_rr>>

\* on_bar leaving _is_running as it is after execute_kill
running_after_kill_kept == TRUE

\* self._is_running = False after execute_kill
running_after_kill == FALSE

\* on_bar step 1, kill switch active: execute_kill(), _is_running = False
Kill ==
    /\ bot.pc = "kill"
    /\ \E readable \in BOOLEAN, ticks, done \in SUBSET open_tickets(mt5_positions) :
         LET r == execute_kill(kill_switch, mt5_positions, readable, ticks, done)
         IN  /\ done \subseteq ticks
             /\ mt5_positions' = r.positions
             /\ last' = [op |-> "execute_kill", sent |-> r.sent, ret |-> r.ret]
    /\ bot' = [bot EXCEPT !.pc = after_kill, !.is_running = running_after_kill]
    /\ UNCHANGED <<kill_switch, tsm_positions, frame, seen_rr>>

\* on_bar step 2: fetch_ohlc_data() and the ATR of the series
Fetch ==
    /\ bot.pc = "fetch"
    /\ \E data \in {NoData} \cup Bars :
         /\ frame' = [frame EXCEPT !.data = data]
         /\ bot' = [bot EXCEPT !.pc = after_fetch(data)]
         /\ last' = [op |-> "fetch_ohlc_data", ret |-> data.some]
    /\ UNCHANGED <<kill_switch, tsm_positions, mt5_positions, seen_rr>>

\* on_bar step 3: executor.get_open_positions(config.SYMBOL)
GetPositions ==
    /\ bot.pc = "positions"
    /\ \E readable \in BOOLEAN :
         LET positions == get_open_positions(mt5_positions, readable)
         IN  /\ frame' = [frame EXCEPT !.positions = positions, !.idx = 1]
             /\ bot' = [bot EXCEPT !.pc = loop_next(positions, 0)]
             /\ last' = [op |-> "get_open_positions", positions |-> positions]
    /\ UNCHANGED <<kill_switch, tsm_positions, mt5_positions, seen_rr>>

\* on_bar step 3, loop body: trailing_manager.update for positions[idx]
Update ==
    /\ bot.pc = "update"
    /\ LET ticket == frame.positions[frame.idx]
           current_atr == IF frame.data.atr.some THEN frame.data.atr.val ELSE 0
           is_long == mt5_positions[ticket].is_long
           r == update(tsm_positions, ticket, frame.data.close, current_atr, is_long)
       IN  /\ tsm_positions' = r.positions
           /\ seen_rr' = note_rr(ticket, frame.data.close, is_long)
           /\ last' = [op |-> "update", ticket |-> ticket,
                       current_price |-> frame.data.close,
                       current_atr |-> current_atr, is_long |-> is_long,
                       new_sl |-> r.new_sl, event |-> r.event]
           /\ IF r.new_sl.some
              THEN /\ frame' = [frame EXCEPT !.new_sl = r.new_sl]
                   /\ bot' = [bot EXCEPT !.pc = "modify"]
              ELSE /\ frame' = [frame EXCEPT !.new_sl = None, !.idx = frame.idx + 1]
                   /\ bot' = [bot EXCEPT !.pc = loop_next(frame.positions, frame.idx)]
    /\ UNCHANGED <<kill_switch, mt5_positions>>

\* on_bar step 3, loop body: executor.modify_position(pos.ticket, stop_loss=new_sl)
Modify ==
    /\ bot.pc = "modify"
    /\ \E ok \in BOOLEAN :
         LET ticket == frame.positions[frame.idx]
             r == modify_position(mt5_positions, ticket, frame.new_sl.val, ok)
         IN  /\ mt5_positions' = r.positions
             /\ last' = [op |-> "modify_position", ticket |-> ticket,
                         ret |-> r.ret, sent |-> r.sent]
    /\ frame' = [frame EXCEPT !.new_sl = None, !.idx = frame.idx + 1]
    /\ bot' = [bot EXCEPT !.pc = loop_next(frame.positions, frame.idx)]
    /\ UNCHANGED <<kill_switch, tsm_positions, seen_rr>>

\* on_bar step 4: signal_generator.generate(close_prices, current_price)
Signal ==
    /\ bot.pc = "signal"
    /\ \E enough \in BOOLEAN, current_ema \in OptEmas,
          current_rsi \in OptRsis, previous_rsi \in OptRsis :
         LET signal == generate(enough, frame.data.close, current_ema,
                                current_rsi, previous_rsi)
         IN  /\ frame' = [frame EXCEPT !.signal = signal]
             /\ bot' = [bot EXCEPT !.pc = after_signal(signal)]
             /\ last' = [op |-> "generate", signal_type |-> signal.signal_type]
    /\ UNCHANGED <<kill_switch, tsm_positions, mt5_positions, seen_rr>>

\* on_bar step 5: risk_manager.calculate_levels
Levels ==
    /\ bot.pc = "levels"
    /\ LET risk_levels == calculate_levels(frame.signal.signal_type,
                                           frame.signal.entry_price, frame.data.atr)
       IN  /\ frame' = [frame EXCEPT !.risk_levels = risk_levels]
           /\ bot' = [bot EXCEPT !.pc = after_levels(risk_levels)]
           /\ last' = [op |-> "calculate_levels", ret |-> risk_levels.some]
    /\ UNCHANGED <<kill_switch, tsm_positions, mt5_positions, seen_rr>>

\* on_bar step 5: executor.open_position
Open ==
    /\ bot.pc = "open"
    /\ \E ok \in BOOLEAN :
         LET r == open_position(mt5_positions,
                                frame.signal.signal_type = "LONG",
                                IF frame.risk_levels.some
                                THEN frame.risk_levels.val.stop_loss ELSE 0,
                                ok /\ next_ticket \in Tickets, next_ticket)
         IN  /\ mt5_positions' = r.positions
             /\ frame' = [frame EXCEPT !.ticket = r.ticket]
             /\ bot' = [bot EXCEPT !.pc = after_open(r.ticket)]
             /\ last' = [op |-> "open_position", result |-> r.ticket]
    /\ UNCHANGED <<kill_switch, tsm_positions, seen_rr>>

\* on_bar step 5: trailing_manager.register_position
Register ==
    /\ bot.pc = "register"
    /\ tsm_positions' = register_position(tsm_positions, frame.ticket.val,
                            frame.signal.entry_price,
                            frame.risk_levels.val.stop_loss,
                            frame.risk_levels.val.risk_distance)
    /\ bot' = [bot EXCEPT !.pc = "sleep"]
    /\ last' = [op |-> "register_position", ticket |-> frame.ticket.val]
    /\ UNCHANGED <<kill_switch, mt5_positions, frame, seen_rr>>

\* shutdown(), from the finally of run
Shutdown ==
    /\ bot.pc = "shutdown"
    /\ bot' = [bot EXCEPT !.pc = "done", !.is_running = FALSE]
    /\ last' = [op |-> "shutdown"]
    /\ UNCHANGED <<kill_switch, tsm_positions, mt5_positions, frame, seen_rr>>

\* SIGINT or SIGTERM: signal_handler calls sys.exit(0), which raises
\* SystemExit in the main thread wherever it is; inside the try of run the
\* finally clause runs shutdown; the locals of on_bar are gone
Interrupt ==
    /\ bot.pc \in InLoop \cup {"start"}
    /\ bot' = [bot EXCEPT !.pc = IF bot.pc = "start" THEN "done" ELSE "shutdown",
                          !.exc = "SystemExit"]
    /\ frame' = EmptyFrame
    /\ last' = [op |-> "signal_handler"]
    /\ UNCHANGED <<kill_switch, tsm_positions, mt5_positions, seen_rr>>

\* the feed moves to a new bar.  Only the polls read the feed's clock, so
\* a bar that begins while on_bar runs is taken as beginning after it
NewBar ==
    /\ bot.pc \in {"loop", "sleep"}
    /\ bot.last_bar_time = "Current"
    /\ bot' = [bot EXCEPT !.last_bar_time = "Stale"]
    /\ UNCHANGED <<kill_switch, tsm_positions, mt5_positions, frame, last, seen_rr>>

\* the terminal closes a position of the strategy: its stop or its target is hit
MarketClose ==
    /\ \E t \in open_tickets(mt5_positions) \cap Tickets :
         mt5_positions' = close_positions(mt5_positions, {t})
    /\ UNCHANGED <<kill_switch, tsm_positions, bot, frame, last, seen_rr>>

Next ==
    \/ Start \/ LoopExit \/ Poll \/ Sleep \/ Check \/ Kill \/ Fetch
    \/ GetPositions \/ Update \/ Modify \/ Signal \/ Levels \/ Open
    \/ Register \/ Shutdown \/ Interrupt \/ NewBar \/ MarketClose

Spec == Init /\ [][Next]_vars

\* the steps of the main thread in run, on_bar and shutdown
BotStep ==
    \/ Start \/ LoopExit \/ Poll \/ Sleep \/ Check \/ Kill \/ Fetch
    \/ GetPositions \/ Update \/ Modify \/ Signal \/ Levels \/ Open
    \/ Register \/ Shutdown

\* the poll that finds a new bar and runs on_bar
PollNewBar == Poll /\ bot'.pc = "check"

\* run with a main thread that keeps taking steps, a feed that keeps
\* producing bars, and polls that do not fail forever to read its clock
SpecLive ==
    /\ Init
    /\ [][Next]_vars
    /\ WF_vars(BotStep)
    /\ WF_vars(NewBar)
    /\ SF_vars(PollNewBar)

-----------------------------------------------------------------------------
(* Properties of the trailing stop manager (SpecTsm) *)

\* C1: from one step to the next, the current_sl tracked for a ticket that
\* stays registered never decreases for a long position and never increases
\* for a short position.
C1_StopNeverRetreats ==
    [][\A t \in DOMAIN tsm_positions :
          t \in DOMAIN tsm_positions' =>
             IF mt5_positions[t].is_long
             THEN tsm_positions'[t].current_sl >= tsm_positions[t].current_sl
             ELSE tsm_positions'[t].current_sl <= tsm_positions[t].current_sl]_vars

\* C1 witness: an update of a position whose stop has already been trailed
\* past the entry, at a price whose trailing stop would lie on the losing
\* side of the tracked stop.
C1_Witness ==
    /\ last.op = "update"
    /\ last.ticket \in DOMAIN tsm_positions
    /\ LET st == tsm_positions[last.ticket]
           dist == (last.current_atr * TRAILING_ATR_MULTIPLIER) \div Tenths
       IN  /\ st.is_trailing
           /\ IF last.is_long
              THEN st.current_sl > st.entry_price
                   /\ last.current_price - dist < st.current_sl
              ELSE st.current_sl < st.entry_price
                   /\ last.current_price + dist > st.current_sl

\* C2: an update of a registered ticket logs the breakeven transition
\* exactly when it is the first update of that ticket whose profit ratio
\* reaches the breakeven ratio; the transition sets is_breakeven, puts the
\* stop at the entry price and returns the entry price; and is_breakeven
\* changes at no other step.
C2_BreakevenOnlyAtFirstReach ==
    [][/\ (last'.op = "update" /\ last'.ticket \in DOMAIN tsm_positions) =>
            LET t == last'.ticket
                fired == last'.event = "breakeven"
            IN  /\ fired <=> (t \notin seen_rr /\ t \in seen_rr')
                /\ fired <=> (~tsm_positions[t].is_breakeven
                                /\ tsm_positions'[t].is_breakeven)
                /\ fired => /\ tsm_positions'[t].current_sl = tsm_positions[t].entry_price
                            /\ last'.new_sl = Some(tsm_positions[t].entry_price)
       /\ \A t \in DOMAIN tsm_positions \cap DOMAIN tsm_positions' :
            tsm_positions'[t].is_breakeven # tsm_positions[t].is_breakeven =>
                /\ last'.op = "update" /\ last'.ticket = t
                /\ last'.event = "breakeven"]_vars

\* C2 witness: after the breakeven of a ticket and a trailing move of its
\* stop, an update whose profit ratio reaches the breakeven ratio again and
\* that does not log the transition.
C2_Witness ==
    /\ last.op = "update"
    /\ last.ticket \in DOMAIN tsm_positions
    /\ last.event # "breakeven"
    /\ LET st == tsm_positions[last.ticket]
       IN  /\ st.is_breakeven
           /\ st.current_sl # st.entry_price
           /\ rr_reached(st, last.current_price, last.is_long)

-----------------------------------------------------------------------------
(* Properties of the kill switch (SpecKs) *)

\* C3 as stated: once _is_triggered is true it stays true, whatever is
\* called next (initialize, check or execute_kill).
C3_TriggeredNeverResets ==
    [][kill_switch.is_triggered => kill_switch'.is_triggered]_vars

\* C3 amended: once _is_triggered is true it stays true after check(),
\* execute_kill() and an initialize() that fails; only an initialize() that
\* reads the account resets it.
C3_TriggeredResetsOnlyOnInitialize ==
    [][(kill_switch.is_triggered /\ ~kill_switch'.is_triggered) =>
          (last'.op = "initialize" /\ last'.ret)]_vars

\* C3 witness: the switch still triggered after an initialize() that failed.
C3_Witness ==
    /\ kill_switch.is_triggered
    /\ last.op = "initialize"
    /\ ~last.ret

\* C4: a check() of an armed switch with starting equity S > 0 that reads
\* equity E returns true, and triggers, exactly when E <= 0.95 * S; with
\* S = 10000 exactly when E <= 9500; and never when E > S.
C4_TriggerIffDrawdownReached ==
    [][(/\ last'.op = "check"
        /\ ~kill_switch.is_triggered
        /\ kill_switch.is_initialized
        /\ kill_switch.starting_equity.some
        /\ kill_switch.starting_equity.val > 0
        /\ last'.account_info.some) =>
          LET S == kill_switch.starting_equity.val
              E == last'.account_info.val
          IN  /\ last'.ret <=> (20 * E <= 19 * S)
              /\ kill_switch'.is_triggered <=> last'.ret
              /\ S = 10000 => (last'.ret <=> E <= 9500)
              /\ E > S => ~last'.ret
              /\ ~last'.raised]_vars

\* C4 witness: starting equity 10000, equity 9500 read, check() returned true.
C4_Witness ==
    /\ last.op = "check"
    /\ last.read
    /\ last.account_info = Some(9500)
    /\ kill_switch.starting_equity = Some(10000)
    /\ last.ret
    /\ kill_switch.is_triggered

\* C5: a check() of an armed switch that cannot read the account returns
\* true and sets _is_triggered; and every check() made while _is_triggered
\* is set returns true and leaves it set, whatever the account then holds.
C5_UnreadableEquityTriggers ==
    [][last'.op = "check" =>
          /\ (/\ ~kill_switch.is_triggered
              /\ kill_switch.is_initialized
              /\ kill_switch.starting_equity.some
              /\ ~last'.account_info.some) =>
                 (last'.read /\ last'.ret /\ kill_switch'.is_triggered)
          /\ kill_switch.is_triggered =>
                 (last'.ret /\ kill_switch'.is_triggered)]_vars

\* C5 witness: a check() that read no account information, returned true
\* and left the switch triggered.
C5_Witness ==
    /\ last.op = "check"
    /\ last.read
    /\ ~last.account_info.some
    /\ last.ret
    /\ kill_switch.is_triggered

\* C6: a check() made while _is_triggered is set returns true, does not
\* read the account and leaves the switch as it was.
C6_CheckIdempotentOnceTriggered ==
    [][(last'.op = "check" /\ kill_switch.is_triggered) =>
          /\ last'.ret
          /\ ~last'.read
          /\ ~last'.raised
          /\ kill_switch' = kill_switch]_vars

\* C6 witness: a check() that returned true without reading the account.
C6_Witness ==
    /\ last.op = "check"
    /\ ~last.read
    /\ last.ret
    /\ kill_switch.is_triggered
    /\ kill_switch.starting_equity.some

-----------------------------------------------------------------------------
(* Properties of the orchestrator (Spec) *)

\* C7: once check() has set _is_triggered, every later step of run and
\* on_bar is execute_kill, the return to the loop, shutdown or the signal
\* handler: on_bar never goes on to fetch data, read or update positions,
\* modify a stop, generate a signal, compute levels, open or register a
\* position; the registry of the trailing manager stays as it is, no
\* position is opened and no stop of an open position is moved.
C7_NothingAfterTrigger ==
    [][kill_switch.is_triggered =>
          /\ last'.op \in {"check", "execute_kill", "sleep", "shutdown",
                           "signal_handler"}
          /\ bot'.pc \in {"kill", "sleep", "loop", "shutdown", "done"}
          /\ tsm_positions' = tsm_positions
          /\ DOMAIN mt5_positions' = DOMAIN mt5_positions
          /\ \A t \in open_tickets(mt5_positions') :
                mt5_positions'[t] = mt5_positions[t]]_vars

\* C7 witness: run has ended after a kill that sent closing orders.
C7_Witness ==
    /\ kill_switch.is_triggered
    /\ ~bot.is_running
    /\ bot.pc = "done"
    /\ bot.exc = "None"
    /\ last.op = "shutdown"
    /\ \E t \in DOMAIN mt5_positions :
          mt5_positions[t].magic = MAGIC_NUMBER /\ ~mt5_positions[t].open

\* C8: when run has ended after the kill switch triggered and execute_kill
\* ran (no exception, no signal), no position with the magic number of the
\* strategy is open, whatever the terminal answered to the closing orders.
C8_KillClosesEveryStrategyPosition ==
    (kill_switch.is_triggered /\ bot.pc = "done" /\ bot.exc = "None") =>
        \A t \in open_tickets(mt5_positions) :
            mt5_positions[t].magic # MAGIC_NUMBER

\* C9: at most one position with the magic number of the strategy is open,
\* and on_bar is not about to call open_position while one is open.
C9_AtMostOneStrategyPosition ==
    LET own == {t \in open_tickets(mt5_positions) :
                   mt5_positions[t].magic = MAGIC_NUMBER}
    IN  /\ Cardinality(own) <= 1
        /\ bot.pc = "open" => own = {}

\* C10: the steps of one on_bar run in the order check, fetch, positions
\* and trailing updates, signal, levels, open, register, and each is reached
\* only from the success of the one before: the fetch from a check() that
\* returned false, the positions from bars that were fetched, the signal
\* from an empty list of positions, the levels from a LONG or SHORT signal,
\* open_position from levels that were computed, register_position from an
\* order that got a ticket.
C10_StepsInOrder ==
    [][LET rank(pc) == CASE pc = "check" -> 1
                         [] pc \in {"kill", "fetch"} -> 2
                         [] pc \in {"positions", "update", "modify"} -> 3
                         [] pc = "signal" -> 4
                         [] pc = "levels" -> 5
                         [] pc = "open" -> 6
                         [] pc = "register" -> 7
                         [] OTHER -> 0
       IN  /\ (rank(bot.pc) > 0 /\ rank(bot'.pc) > 0) =>
                 \/ rank(bot'.pc) > rank(bot.pc)
                 \/ rank(bot'.pc) = 3 /\ rank(bot.pc) = 3
                 \/ bot'.pc = bot.pc /\ last' = last
           /\ bot'.pc = "fetch" =>
                 last'.op = "check" /\ ~last'.ret /\ ~kill_switch'.is_triggered
           /\ bot'.pc = "positions" =>
                 last'.op = "fetch_ohlc_data" /\ last'.ret /\ frame'.data.some
           /\ bot'.pc = "signal" =>
                 last'.op = "get_open_positions" /\ frame'.positions = <<>>
           /\ bot'.pc = "levels" =>
                 last'.op = "generate" /\ last'.signal_type \in {"LONG", "SHORT"}
           /\ bot'.pc = "open" =>
                 /\ last'.op = "calculate_levels" /\ last'.ret
                 /\ ~kill_switch'.is_triggered
                 /\ frame'.data.some
                 /\ frame'.positions = <<>>
                 /\ frame'.signal.signal_type \in {"LONG", "SHORT"}
                 /\ frame'.risk_levels.some
           /\ bot'.pc = "register" =>
                 last'.op = "open_position" /\ last'.result.some]_vars

\* C10 witness: a bar on which every step ran, up to register_position.
C10_Witness ==
    /\ last.op = "register_position"
    /\ bot.pc = "sleep"
    /\ frame.ticket.some
    /\ frame.ticket.val \in DOMAIN tsm_positions

\* C11: when run is in or past its shutdown, no bar was cut between two of
\* its steps: every position the bot opened at the terminal is registered
\* with the trailing manager.
C11_ShutdownOnlyBetweenBars ==
    bot.pc \in {"shutdown", "done"} =>
        \A t \in DOMAIN mt5_positions :
            mt5_positions[t].magic = MAGIC_NUMBER => t \in DOMAIN tsm_positions

-----------------------------------------------------------------------------
(* Properties of the signal generator (SpecSig) *)

\* C12 as stated: whenever the last EMA and the last two RSI values of the
\* series are defined, generate gives LONG exactly for a close above the
\* EMA with previous RSI <= 30 < current RSI, SHORT exactly for a close
\* below the EMA with previous RSI >= 70 > current RSI, and NONE otherwise.
C12_SignalIffCrossing ==
    (/\ last.op = "generate"
     /\ last.current_ema.some /\ last.current_rsi.some /\ last.previous_rsi.some) =>
        LET long == /\ last.current_close > last.current_ema.val
                    /\ last.previous_rsi.val <= RSI_OVERSOLD
                    /\ RSI_OVERSOLD < last.current_rsi.val
            short == /\ last.current_close < last.current_ema.val
                     /\ last.previous_rsi.val >= RSI_OVERBOUGHT
                     /\ RSI_OVERBOUGHT > last.current_rsi.val
        IN  /\ last.ret.signal_type = "LONG" <=> long
            /\ last.ret.signal_type = "SHORT" <=> short
            /\ last.ret.signal_type \in {"LONG", "SHORT", "NONE"}

\* C12: the same for the series that pass the length test of generate (at
\* least max(ema_period, rsi_period) + 2 closes); a shorter series gives
\* NONE whatever its indicator values; previous RSI 28 and current RSI 32
\* above the EMA give LONG, previous 32 and current 28 give NONE.
C12_SignalIffCrossingOnLongSeries ==
    last.op = "generate" =>
        LET defined == /\ last.current_ema.some /\ last.current_rsi.some
                       /\ last.previous_rsi.some
            long == /\ last.current_close > last.current_ema.val
                    /\ last.previous_rsi.val <= RSI_OVERSOLD
                    /\ RSI_OVERSOLD < last.current_rsi.val
            short == /\ last.current_close < last.current_ema.val
                     /\ last.previous_rsi.val >= RSI_OVERBOUGHT
                     /\ RSI_OVERBOUGHT > last.current_rsi.val
        IN  /\ ~last.enough => last.ret.signal_type = "NONE"
            /\ (last.enough /\ defined) =>
                  /\ last.ret.signal_type = "LONG" <=> long
                  /\ last.ret.signal_type = "SHORT" <=> short
                  /\ last.ret.signal_type \in {"LONG", "SHORT", "NONE"}
                  /\ (/\ last.previous_rsi.val = 28 /\ last.current_rsi.val = 32
                      /\ last.current_close > last.current_ema.val)
                        => last.ret.signal_type = "LONG"
                  /\ (last.previous_rsi.val = 32 /\ last.current_rsi.val = 28)
                        => last.ret.signal_type = "NONE"

\* C12 witness: a LONG from a previous RSI at the oversold level itself.
C12_Witness ==
    /\ last.op = "generate"
    /\ last.enough
    /\ last.previous_rsi = Some(30)
    /\ last.current_rsi = Some(32)
    /\ last.current_ema.some
    /\ last.current_close > last.current_ema.val
    /\ last.ret.signal_type = "LONG"

\* C13: a close equal to the EMA gives NONE for every pair of RSI values.
C13_CloseAtEmaGivesNone ==
    (/\ last.op = "generate"
     /\ last.current_ema.some
     /\ last.current_close = last.current_ema.val) =>
        last.ret.signal_type = "NONE"

\* C13 witness: a close equal to the EMA on a series long enough, with the
\* RSI crossing below the overbought level.
C13_Witness ==
    /\ last.op = "generate"
    /\ last.enough
    /\ last.current_ema = Some(last.current_close)
    /\ last.previous_rsi = Some(72)
    /\ last.current_rsi = Some(68)
    /\ last.ret.signal_type = "NONE"

-----------------------------------------------------------------------------
(* Properties of the risk manager (SpecRisk) *)

\* C14: with a positive ATR, calculate_levels gives for LONG the stop
\* entry - ATR * 1.5 and the target entry + ATR * 2.0, for SHORT the stop
\* entry + ATR * 1.5 and the target entry - ATR * 2.0, and in both cases the
\* risk distance ATR * 1.5; a LONG entry of 1.10000 with ATR 0.0020 gives
\* the stop 1.09700 and the target 1.10400.
C14_LevelsFromAtr ==
    (/\ last.op = "calculate_levels"
     /\ last.signal_type \in {"LONG", "SHORT"}
     /\ last.current_atr.some
     /\ last.current_atr.val > 0) =>
        LET entry == last.entry_price
            atr == last.current_atr.val
            sign == IF last.signal_type = "LONG" THEN 1 ELSE -1
        IN  /\ last.ret.some
            /\ Tenths * (entry - last.ret.val.stop_loss)
                 = sign * atr * ATR_SL_MULTIPLIER
            /\ Tenths * (last.ret.val.take_profit - entry)
                 = sign * atr * ATR_TP_MULTIPLIER
            /\ Tenths * last.ret.val.risk_distance = atr * ATR_SL_MULTIPLIER
            /\ (last.signal_type = "LONG" /\ entry = 1100 /\ atr = 2) =>
                  /\ last.ret.val.stop_loss = 1097
                  /\ last.ret.val.take_profit = 1104

\* C14 witness: the levels of a SHORT at 1.10000 with ATR 0.0020.
C14_Witness ==
    /\ last.op = "calculate_levels"
    /\ last.signal_type = "SHORT"
    /\ last.entry_price = 1100
    /\ last.current_atr = Some(2)
    /\ last.ret.some
    /\ last.ret.val.stop_loss = 1103
    /\ last.ret.val.take_profit = 1096

\* C15: every RiskLevels calculate_levels returns has a risk distance that
\* is positive and is the distance between the entry and the stop, for LONG
\* and SHORT; every position registered from such levels has a positive
\* risk distance.
C15_RiskDistancePositive ==
    /\ (last.op = "calculate_levels" /\ last.ret.some) =>
          LET d == last.entry_price - last.ret.val.stop_loss
          IN  /\ last.ret.val.risk_distance > 0
              /\ last.ret.val.risk_distance = IF d >= 0 THEN d ELSE -d
    /\ \A t \in DOMAIN tsm_positions : tsm_positions[t].risk_distance > 0

\* C15 witness: a SHORT position registered from the levels computed for it.
C15_Witness ==
    /\ last.op = "register_position"
    /\ last.ticket \in DOMAIN tsm_positions
    /\ tsm_positions[last.ticket].current_sl > tsm_positions[last.ticket].entry_price
    /\ tsm_positions[last.ticket].risk_distance
         = tsm_positions[last.ticket].current_sl - tsm_positions[last.ticket].entry_price

-----------------------------------------------------------------------------
(* Further properties of the trailing stop manager (SpecTsm) *)

\* C16: the value update returns for a ticket that is not registered
\* differs from the value it returns for every update of a registered
\* ticket that leaves the stop where it is.
C16_UnknownTicketDistinguishable ==
    (last.op = "update" /\ last.event = "not found") =>
        \A t \in DOMAIN tsm_positions, current_price \in Prices,
           current_atr \in Atrs :
            LET r == update(tsm_positions, t, current_price, current_atr,
                            mt5_positions[t].is_long)
            IN  r.event = "none" => r.new_sl # last.new_sl

-----------------------------------------------------------------------------
(* Further properties of the orchestrator (Spec) *)

\* C17: on a bar whose ATR is undefined, no step changes the stop tracked
\* for a registered position and no modify_position is called.  Stated for
\* the positions that are already trailing, whose stop only the trailing
\* branch of update moves: on such a bar their tracked stop stays where it
\* is.
C17_NoTrailingWithoutAtr ==
    [][(frame.data.some /\ ~frame.data.atr.some) =>
          \A t \in DOMAIN tsm_positions :
              tsm_positions[t].is_trailing =>
                  /\ t \in DOMAIN tsm_positions'
                  /\ tsm_positions'[t].current_sl = tsm_positions[t].current_sl]_vars

\* C19: a bar whose fetch fails ends there and changes nothing: the check()
\* that let the bar through and the failed fetch leave the kill switch, the
\* trailing manager's map and the positions of the terminal as they were,
\* on_bar returns, and run goes on polling for the next bar.
C19_FailedFetchChangesNothing ==
    [][/\ (bot.pc = "check" /\ bot'.pc = "fetch") =>
             /\ kill_switch' = kill_switch
             /\ tsm_positions' = tsm_positions
             /\ mt5_positions' = mt5_positions
       /\ (bot.pc = "fetch" /\ last'.op = "fetch_ohlc_data" /\ ~last'.ret) =>
             /\ kill_switch' = kill_switch
             /\ tsm_positions' = tsm_positions
             /\ mt5_positions' = mt5_positions
             /\ bot' = [bot EXCEPT !.pc = "sleep"]
             /\ bot'.is_running]_vars

\* C19 witness: on_bar has returned from a failed fetch with a position
\* registered and open, and run is still running.
C19_Witness ==
    /\ bot.pc = "sleep"
    /\ bot.is_running
    /\ last.op = "fetch_ohlc_data"
    /\ ~last.ret
    /\ \E t \in DOMAIN tsm_positions : mt5_positions[t].open

\* C20: outside the moment between update and modify_position, and unless
\* a signal has cut the bar, the stop the trailing manager tracks for an
\* open position is not ahead of the stop the terminal holds for it: not
\* above it for a long, not below it for a short.
C20_TrackedStopNotAheadOfBroker ==
    (bot.pc # "modify" /\ bot.exc = "None") =>
        \A t \in DOMAIN tsm_positions :
            (t \in DOMAIN mt5_positions /\ mt5_positions[t].open) =>
                IF mt5_positions[t].is_long
                THEN tsm_positions[t].current_sl <= mt5_positions[t].sl
                ELSE tsm_positions[t].current_sl >= mt5_positions[t].sl

-----------------------------------------------------------------------------
(* Properties of the orchestrator that keeps running (SpecLive) *)

\* C18: the trailing manager holds entries only for tickets of positions
\* the bot opened, and once such a position is closed at the terminal its
\* entry is eventually removed from the map, unless run ends first.
C18_ClosedEntriesRemoved ==
    /\ [](\A t \in DOMAIN tsm_positions :
             /\ t \in DOMAIN mt5_positions
             /\ mt5_positions[t].magic = MAGIC_NUMBER)
    /\ \A t \in Tickets :
          (/\ t \in DOMAIN tsm_positions
           /\ t \in DOMAIN mt5_positions
           /\ ~mt5_positions[t].open)
             ~> (t \notin DOMAIN tsm_positions \/ bot.pc = "done")

-----------------------------------------------------------------------------
(* Further properties of the kill switch (SpecKs) *)

\* C21: every closing order execute_kill sends is for a position whose
\* magic number equals the magic number the switch was constructed with,
\* for the configured MAGIC_NUMBER and for the constructor default alike.
C21_KillOnlyOwnPositions ==
    last.op = "execute_kill" =>
        \A t \in last.sent : mt5_positions[t].magic = kill_switch.magic_number

-----------------------------------------------------------------------------
(* Properties of the indicators and of generate on series (SpecInd) *)

\* C23: for every period p >= 1 and every series with fewer than p
\* elements, calculate_ema, calculate_rsi and calculate_atr return an array
\* with as many elements as the series, every one of them undefined.
C23_ShortSeriesAllUndefined ==
    /\ (last.op = "calculate_ema" /\ Len(last.data) < last.period) =>
          /\ Len(last.ema) = Len(last.data)
          /\ \A i \in 1..Len(last.ema) : ~last.ema[i].some
    /\ (last.op = "calculate_rsi" /\ Len(last.data) < last.period) =>
          /\ Len(last.rsi) = Len(last.data)
          /\ \A i \in 1..Len(last.rsi) : ~last.rsi[i].some
    /\ (last.op = "calculate_atr" /\ Len(last.close) < last.period) =>
          /\ Len(last.atr) = Len(last.close)
          /\ \A i \in 1..Len(last.atr) : ~last.atr[i].some

\* C23 witness: calculate_ema has returned on a series of one element with
\* period 2.
C23_Witness ==
    /\ last.op = "calculate_ema"
    /\ last.period = 2
    /\ Len(last.data) = 1
    /\ Len(last.ema) = 1

\* C24: every defined element of the array calculate_rsi returns is at
\* least 0 and at most 100.
C24_RsiWithinBounds ==
    last.op = "calculate_rsi" =>
        \A i \in 1..Len(last.rsi) :
            last.rsi[i].some =>
                /\ QLeq(QInt(0), last.rsi[i].val)
                /\ QLeq(last.rsi[i].val, QInt(100))

\* C24 witness: calculate_rsi has returned, on one series, the value 100
\* after changes without a loss and a value strictly between 0 and 100
\* after.
C24_Witness ==
    /\ last.op = "calculate_rsi"
    /\ \E i, j \in 1..Len(last.rsi) :
          /\ i < j
          /\ last.rsi[i].some /\ last.rsi[i].val = QInt(100)
          /\ last.rsi[j].some
          /\ QLess(QInt(0), last.rsi[j].val)
          /\ QLess(last.rsi[j].val, QInt(100))

\* C25: every defined element of the array calculate_atr returns is at
\* least 0, bars whose high is below their low included.
C25_AtrNonNegative ==
    last.op = "calculate_atr" =>
        \A i \in 1..Len(last.atr) :
            last.atr[i].some => QLeq(QInt(0), last.atr[i].val)

\* C25 witness: calculate_atr has returned a defined value on a series
\* whose first bar and whose last bar both have their high below their low.
C25_Witness ==
    /\ last.op = "calculate_atr"
    /\ Len(last.close) >= 2
    /\ last.high[1] < last.low[1]
    /\ last.high[Len(last.close)] < last.low[Len(last.close)]
    /\ last.atr[Len(last.close)].some

\* C26: on a series with fewer than max(ema_period, rsi_period) + 2 closes
\* generate returns a Signal of type NONE whose entry_price, ema_value and
\* rsi_value are 0; on a series with exactly that many closes the last EMA
\* and the last two RSI values are defined and the Signal is the one the
\* rule gives: LONG when the close is above the EMA and the RSI crosses
\* above the oversold level, SHORT when the close is below the EMA and the
\* RSI crosses below the overbought level, NONE otherwise, with the close,
\* the EMA and the RSI as its reference values.
C26_LengthGuard ==
    last.op = "generate" =>
        LET n    == Len(last.close_prices)
            need == Max(last.ema_period, last.rsi_period) + 2
            sig  == last.signal
        IN  /\ n < need =>
                  /\ sig.signal_type = "NONE"
                  /\ sig.entry_price = 0
                  /\ sig.ema_value = QInt(0)
                  /\ sig.rsi_value = QInt(0)
            /\ n = need =>
                  LET ema == calculate_ema(last.close_prices, last.ema_period)[n]
                      rsi == calculate_rsi(last.close_prices, last.rsi_period)
                      close == IF last.current_price.some
                                  /\ last.current_price.val # 0
                               THEN last.current_price.val
                               ELSE last.close_prices[n]
                      long == /\ QLess(ema.val, QInt(close))
                              /\ QLeq(rsi[n - 1].val, QInt(RSI_OVERSOLD))
                              /\ QLess(QInt(RSI_OVERSOLD), rsi[n].val)
                      short == /\ QLess(QInt(close), ema.val)
                               /\ QLeq(QInt(RSI_OVERBOUGHT), rsi[n - 1].val)
                               /\ QLess(rsi[n].val, QInt(RSI_OVERBOUGHT))
                  IN  /\ ema.some /\ rsi[n].some /\ rsi[n - 1].some
                      /\ sig.signal_type = "LONG" <=> long
                      /\ sig.signal_type = "SHORT" <=> short
                      /\ sig.entry_price = close
                      /\ sig.ema_value = ema.val
                      /\ sig.rsi_value = rsi[n].val

\* C26 witness: generate has returned a LONG signal on a series of exactly
\* max(ema_period, rsi_period) + 2 closes.
C26_Witness ==
    /\ last.op = "generate"
    /\ Len(last.close_prices) = Max(last.ema_period, last.rsi_period) + 2
    /\ last.signal.signal_type = "LONG"

-----------------------------------------------------------------------------
(* Further properties of the risk manager (SpecRisk) *)

\* C27: calculate_levels returns None when the signal type is NONE and when
\* the last ATR is undefined or not positive, and returns RiskLevels in
\* every other case.
C27_LevelsIffSignalAndAtr ==
    last.op = "calculate_levels" =>
        /\ last.signal_type = "NONE" => ~last.ret.some
        /\ (~last.current_atr.some \/ last.current_atr.val <= 0) => ~last.ret.some
        /\ (last.signal_type # "NONE" /\ last.current_atr.some
              /\ last.current_atr.val > 0) => last.ret.some

\* C27 witness: calculate_levels has returned None for a NONE signal with a
\* positive ATR.
C27_Witness ==
    /\ last.op = "calculate_levels"
    /\ last.signal_type = "NONE"
    /\ last.current_atr.some
    /\ last.current_atr.val > 0
    /\ ~last.ret.some

-----------------------------------------------------------------------------
(* Properties of the branches of update (SpecTsm) *)

\* C28: the update that takes a position to breakeven puts its current_sl
\* at the entry price and returns the entry price, also when the price less
\* (long) or plus (short) the trailing distance would be a better stop than
\* the entry.
C28_BreakevenStopIsEntry ==
    [][(/\ last'.op = "update"
        /\ last'.ticket \in DOMAIN tsm_positions
        /\ ~tsm_positions[last'.ticket].is_breakeven
        /\ last'.ticket \in DOMAIN tsm_positions'
        /\ tsm_positions'[last'.ticket].is_breakeven) =>
          LET t == last'.ticket
          IN  /\ tsm_positions'[t].current_sl = tsm_positions[t].entry_price
              /\ tsm_positions'[t].entry_price = tsm_positions[t].entry_price
              /\ last'.new_sl = Some(tsm_positions[t].entry_price)]_vars

\* C28 witness: a long position has just been taken to breakeven at a price
\* whose trailing stop lies above the entry, and its stop is at the entry.
C28_Witness ==
    /\ last.op = "update"
    /\ last.event = "breakeven"
    /\ last.is_long
    /\ last.ticket \in DOMAIN tsm_positions
    /\ LET st == tsm_positions[last.ticket]
           dist == (last.current_atr * TRAILING_ATR_MULTIPLIER) \div Tenths
       IN  /\ last.current_price - dist > st.entry_price
           /\ st.current_sl = st.entry_price
           /\ last.new_sl = Some(st.entry_price)

\* C29: an update of a position that is trailing returns a new stop exactly
\* when the price less the trailing distance is strictly above current_sl
\* (long) or the price plus the trailing distance is strictly below it
\* (short); the stop returned is that potential stop and becomes
\* current_sl; otherwise, a potential stop equal to current_sl included,
\* None is returned and the state of the position stays as it was.
C29_TrailOnlyStrictlyBetter ==
    [][(/\ last'.op = "update"
        /\ last'.ticket \in DOMAIN tsm_positions
        /\ tsm_positions[last'.ticket].is_trailing) =>
          LET t == last'.ticket
              st == tsm_positions[t]
              dist == (last'.current_atr * TRAILING_ATR_MULTIPLIER) \div Tenths
              potential_sl == IF last'.is_long THEN last'.current_price - dist
                                               ELSE last'.current_price + dist
              better == IF last'.is_long THEN potential_sl > st.current_sl
                                         ELSE potential_sl < st.current_sl
          IN  /\ last'.new_sl.some <=> better
              /\ better => /\ last'.new_sl = Some(potential_sl)
                           /\ tsm_positions'[t] =
                                [st EXCEPT !.current_sl = potential_sl]
              /\ ~better => /\ last'.new_sl = None
                            /\ tsm_positions'[t] = st]_vars

\* C29 witness: an update of a trailing position whose potential stop
\* equals the current stop, which has moved away from the entry, has
\* returned None.
C29_Witness ==
    /\ last.op = "update"
    /\ last.ticket \in DOMAIN tsm_positions
    /\ last.event = "none"
    /\ last.new_sl = None
    /\ LET st == tsm_positions[last.ticket]
           dist == (last.current_atr * TRAILING_ATR_MULTIPLIER) \div Tenths
       IN  /\ st.is_trailing
           /\ st.current_sl # st.entry_price
           /\ st.current_sl = IF last.is_long THEN last.current_price - dist
                                              ELSE last.current_price + dist

\* C30: an update of a position that has not reached breakeven, at a price
\* whose profit ratio is below the breakeven ratio, returns None and leaves
\* the state of the position as it was, its stop at the initial stop,
\* whatever the ATR; and an update of one ticket, registered or not, leaves
\* the state of every other ticket and the set of registered tickets as
\* they were.
C30_UpdateTouchesOnlyItsTicket ==
    [][last'.op = "update" =>
          LET t == last'.ticket
          IN  /\ DOMAIN tsm_positions' = DOMAIN tsm_positions
              /\ \A u \in DOMAIN tsm_positions \ {t} :
                    tsm_positions'[u] = tsm_positions[u]
              /\ (/\ t \in DOMAIN tsm_positions
                  /\ ~tsm_positions[t].is_breakeven
                  /\ ~tsm_positions[t].is_trailing
                  /\ ~rr_reached(tsm_positions[t], last'.current_price,
                                 last'.is_long)) =>
                    /\ last'.new_sl = None
                    /\ tsm_positions'[t] = tsm_positions[t]
                    /\ tsm_positions'[t].current_sl = tsm_positions[t].initial_sl
                    /\ ~tsm_positions'[t].is_breakeven
                    /\ ~tsm_positions'[t].is_trailing]_vars

\* C30 witness: with two positions registered, one of them trailing, the
\* other has been updated with a positive ATR at a price in profit below
\* the breakeven ratio, and is still in its initial state.
C30_Witness ==
    /\ last.op = "update"
    /\ DOMAIN tsm_positions = {1, 2}
    /\ last.current_atr > 0
    /\ last.new_sl = None
    /\ LET st == tsm_positions[last.ticket]
       IN  /\ ~st.is_breakeven /\ ~st.is_trailing
           /\ st.current_sl = st.initial_sl
           /\ profit_distance(st, last.current_price, last.is_long) > 0
           /\ ~rr_reached(st, last.current_price, last.is_long)
    /\ \E u \in {1, 2} \ {last.ticket} : tsm_positions[u].is_trailing

-----------------------------------------------------------------------------
(* Properties of the run loop and of the last steps of on_bar (Spec) *)

C32_OnBarOncePerNewBar ==
    [][/\ (bot.pc = "loop" /\ bot.is_running /\ bot'.pc \in {"check", "sleep"}) =>
            /\ last'.op \in {"on_bar", "poll"}
            /\ bot'.pc = "check" <=>
                  (last'.available /\ bot.last_bar_time # "Current")
            /\ bot'.pc = "check" <=> last'.op = "on_bar"
            /\ bot'.pc = "check" => bot'.last_bar_time = "Current"
            /\ bot'.pc = "sleep" => bot'.last_bar_time = bot.last_bar_time
       /\ (bot'.pc = "check" /\ bot.pc # "check") => bot.pc = "loop"
       /\ (bot'.pc = "loop" /\ bot.pc # "loop") => bot.pc \in {"start", "sleep"}
       /\ bot.pc \in InLoop \ {"loop", "sleep"} =>
            bot'.pc \in (InLoop \ {"loop"}) \cup {"shutdown"}]_vars

\* C32 witness: a poll has just found the recorded timestamp unchanged,
\* after an earlier bar on which a position was opened, and on_bar did not
\* run.
C32_Witness ==
    /\ last.op = "poll"
    /\ last.available
    /\ bot.pc = "sleep"
    /\ bot.last_bar_time = "Current"
    /\ DOMAIN tsm_positions # {}

-----------------------------------------------------------------------------
(* Termination of the run loop (SpecLive) *)

\* C33: once the kill switch has triggered, run comes to its end: no poll
\* is made while the switch is triggered, the main thread reaches the end
\* of run, shutdown runs from the finally clause only and nothing runs
\* after it.
C33_TriggerEndsRun ==
    /\ kill_switch.is_triggered ~> bot.pc = "done"
    /\ [][/\ kill_switch.is_triggered =>
                ~(bot.pc = "loop" /\ bot'.pc \in {"check", "sleep"})
          /\ (last'.op = "shutdown" /\ last.op # "shutdown") =>
                (bot.pc = "shutdown" /\ bot'.pc = "done")
          /\ bot.pc = "done" => bot'.pc = "done"]_vars

\* C33 witness: run has ended through shutdown, without an exception, with
\* the switch triggered and a position of the strategy closed by
\* execute_kill.
C33_Witness ==
    /\ kill_switch.is_triggered
    /\ bot.pc = "done"
    /\ bot.exc = "None"
    /\ last.op = "shutdown"
    /\ \E t \in DOMAIN tsm_positions : ~mt5_positions[t].open

-----------------------------------------------------------------------------
(* Further properties of the indicators and of generate on series (SpecInd) *)

\* C34: on a series of n >= period elements calculate_ema is undefined at
\* the indexes below period - 1 and defined from index period - 1 on, the
\* value at period - 1 being the mean of the first period elements; on a
\* series of n >= period + 1 elements calculate_rsi and calculate_atr are
\* undefined at the indexes below period and defined from index period on;
\* on a series of exactly period elements they are undefined everywhere.
\* Element i of a sequence is index i - 1 of the array.
C34_FirstDefinedIndex ==
    /\ (last.op = "calculate_ema" /\ Len(last.data) >= last.period) =>
          /\ Len(last.ema) = Len(last.data)
          /\ \A i \in 1..Len(last.ema) : last.ema[i].some <=> i >= last.period
          /\ last.ema[last.period].val
               = Q(SumInts(last.data, 1, last.period), last.period)
    /\ (last.op = "calculate_rsi" /\ Len(last.data) >= last.period + 1) =>
          /\ Len(last.rsi) = Len(last.data)
          /\ \A i \in 1..Len(last.rsi) : last.rsi[i].some <=> i >= last.period + 1
    /\ (last.op = "calculate_atr" /\ Len(last.close) >= last.period + 1) =>
          /\ Len(last.atr) = Len(last.close)
          /\ \A i \in 1..Len(last.atr) : last.atr[i].some <=> i >= last.period + 1
    /\ (last.op = "calculate_rsi" /\ Len(last.data) = last.period) =>
          \A i \in 1..Len(last.rsi) : ~last.rsi[i].some
    /\ (last.op = "calculate_atr" /\ Len(last.close) = last.period) =>
          \A i \in 1..Len(last.atr) : ~last.atr[i].some

\* C34 witness: calculate_ema has returned on a series of exactly period
\* elements, period 2, with its seed as the only defined element.
C34_Witness ==
    /\ last.op = "calculate_ema"
    /\ last.period = 2
    /\ Len(last.data) = 2
    /\ ~last.ema[1].some
    /\ last.ema[2].some

\* C40: whenever the series given to generate has at least
\* max(ema_period, rsi_period) + 2 closes, the last EMA and the last two
\* RSI values are defined, and the Signal returned carries the close, that
\* EMA and that RSI: it does not come from the branch for undefined
\* indicators.
C40_IndicatorsDefinedPastGuard ==
    (/\ last.op = "generate"
     /\ Len(last.close_prices)
          >= Max(last.ema_period, last.rsi_period) + 2) =>
        LET n   == Len(last.close_prices)
            ema == calculate_ema(last.close_prices, last.ema_period)
            rsi == calculate_rsi(last.close_prices, last.rsi_period)
        IN  /\ ema[n].some
            /\ rsi[n].some
            /\ rsi[n - 1].some
            /\ last.signal.ema_value = ema[n].val
            /\ last.signal.rsi_value = rsi[n].val
            /\ last.signal.entry_price # 0

\* C40 witness: generate has returned a LONG signal on a series longer
\* than the length test asks for.
C40_Witness ==
    /\ last.op = "generate"
    /\ Len(last.close_prices) > Max(last.ema_period, last.rsi_period) + 2
    /\ last.signal.signal_type = "LONG"
    /\ last.signal.rsi_value = QInt(100)

-----------------------------------------------------------------------------
(* Properties of the states of the kill switch (SpecKs) *)

\* C35: check() on a switch that is not initialized returns False without
\* reading the account and leaves the switch as it was; the triggered flag
\* goes from false to true only in a check() on a switch that is
\* initialized and holds a starting equity; initialize() returns False
\* exactly when the account cannot be read, and then leaves the starting
\* equity and both flags as they were.
C35_TriggeredOnlyFromArmed ==
    [][/\ (last'.op = "check" /\ ~kill_switch.is_triggered
             /\ (~kill_switch.is_initialized \/ ~kill_switch.starting_equity.some)) =>
            /\ ~last'.ret
            /\ ~last'.read
            /\ ~last'.raised
            /\ kill_switch' = kill_switch
       /\ (~kill_switch.is_triggered /\ kill_switch'.is_triggered) =>
            /\ last'.op = "check"
            /\ kill_switch.is_initialized
            /\ kill_switch.starting_equity.some
       /\ last'.op = "initialize" =>
            /\ last'.ret <=> last'.account_info.some
            /\ ~last'.ret => kill_switch' = kill_switch]_vars

\* C35 witness: check() has returned False on a switch that is still not
\* initialized, without reading the account.
C35_Witness ==
    /\ last.op = "check"
    /\ ~kill_switch.is_initialized
    /\ ~kill_switch.starting_equity.some
    /\ ~kill_switch.is_triggered
    /\ ~last.ret
    /\ ~last.read

-----------------------------------------------------------------------------
(* Properties of the orchestrator around the kill switch (Spec) *)

\* C38: no check() raises: whatever equity the account held when the
\* session started, 0 included, every check() on the initialized switch
\* returns a boolean and no ZeroDivisionError travels through run.
C38_CheckNeverRaises ==
    /\ last.op = "check" => ~last.raised
    /\ bot.exc # "ZeroDivisionError"

-----------------------------------------------------------------------------
(* Properties of the flags and of the stop after breakeven (SpecTsm) *)

\* C36: after every step each registered position has is_trailing true
\* exactly when is_breakeven is true, and a flag that is true stays true
\* for as long as the position stays registered.
C36_TrailingIffBreakeven ==
    [][/\ \A t \in DOMAIN tsm_positions' :
             tsm_positions'[t].is_trailing <=> tsm_positions'[t].is_breakeven
       /\ \A t \in DOMAIN tsm_positions \cap DOMAIN tsm_positions' :
             /\ tsm_positions[t].is_breakeven => tsm_positions'[t].is_breakeven
             /\ tsm_positions[t].is_trailing => tsm_positions'[t].is_trailing]_vars

\* C36 witness: of two registered positions one is at breakeven and
\* trailing, with its stop moved past the entry, and the other has neither
\* flag.
C36_Witness ==
    /\ DOMAIN tsm_positions = {1, 2}
    /\ \E t, u \in {1, 2} :
          /\ tsm_positions[t].is_breakeven /\ tsm_positions[t].is_trailing
          /\ tsm_positions[t].current_sl # tsm_positions[t].entry_price
          /\ ~tsm_positions[u].is_breakeven /\ ~tsm_positions[u].is_trailing

\* C37: the current_sl of a position that has reached breakeven is not on
\* the losing side of its entry price: not below it for a long position,
\* not above it for a short position, the direction given to update being
\* the direction of the position.
C37_StopNotBehindEntryAfterBreakeven ==
    \A t \in DOMAIN tsm_positions :
        tsm_positions[t].is_breakeven =>
            IF mt5_positions[t].is_long
            THEN tsm_positions[t].current_sl >= tsm_positions[t].entry_price
            ELSE tsm_positions[t].current_sl <= tsm_positions[t].entry_price

\* C37 witness: a short position at breakeven has been updated at a price
\* on the losing side of its entry, and its stop is still at the entry.
C37_Witness ==
    /\ last.op = "update"
    /\ ~last.is_long
    /\ last.ticket \in DOMAIN tsm_positions
    /\ LET st == tsm_positions[last.ticket]
       IN  /\ st.is_breakeven
           /\ last.event = "none"
           /\ last.current_price > st.entry_price
           /\ st.current_sl = st.entry_price

-----------------------------------------------------------------------------
(* Properties of a session whose kill switch was not armed (Spec) *)

\* C39: the main thread is inside the loop of run, and so inside on_bar,
\* only with a kill switch that initialize() has armed; a session whose
\* initialize() failed has ended without an exception, with on_bar's
\* locals never assigned, nothing registered with the trailing manager and
\* no position of the strategy in the terminal.
C39_NoBarWithoutArmedSwitch ==
    /\ bot.pc \in InLoop \cup {"shutdown"} =>
          (kill_switch.is_initialized /\ kill_switch.starting_equity.some)
    /\ ~kill_switch.is_initialized =>
          /\ bot.pc \in {"start", "done"}
          /\ frame = EmptyFrame
          /\ tsm_positions = <<>>
          /\ \A t \in DOMAIN mt5_positions : mt5_positions[t].magic # MAGIC_NUMBER
    /\ (last.op = "initialize" /\ ~last.ret) => bot.pc = "done"

\* C39 witness: initialize() has failed and run has returned.
C39_Witness ==
    /\ last.op = "initialize"
    /\ ~last.ret
    /\ ~kill_switch.is_initialized
    /\ bot.pc = "done"
    /\ bot.exc = "None"
    /\ ~bot.is_running

=============================================================================
